---- MODULE Spec2Model ----
(***************************************************************************)
(* Verification model of the heat-exchanger calculators:                   *)
(*   - calculateDPHX   (src/projects/dphx/script.js), the double-pipe      *)
(*     pipe-selection optimizer;                                           *)
(*   - calculateSTHX / runDesignIteration (src/projects/sthx/script.js),   *)
(*     the shell-and-tube design loop.                                     *)
(*                                                                         *)
(* JavaScript numbers are modelled as decimal floating-point values with   *)
(* a four-digit mantissa (truncating), plus NaN, +Infinity and -Infinity.  *)
(* Signed zero is not distinguished.  Math.pow and Math.log are computed   *)
(* through fixed-point ln/exp to about four significant digits.            *)
(***************************************************************************)
EXTENDS Integers, Sequences, FiniteSets, TLC

(* ----------------------------------------------------------------------- *)
(* JavaScript number model                                                 *)
(* ----------------------------------------------------------------------- *)

NaN == [k |-> "nan", m |-> 0, e |-> 0]
PInf == [k |-> "inf", m |-> 1, e |-> 0]
NInf == [k |-> "inf", m |-> -1, e |-> 0]
Zero == [k |-> "fin", m |-> 0, e |-> 0]

AbsInt(a) == IF a < 0 THEN -a ELSE a

SgnInt(a) == IF a < 0 THEN -1 ELSE IF a > 0 THEN 1 ELSE 0

Pow10(n) == <<1, 10, 100, 1000, 10000, 100000, 1000000, 10000000, 100000000, 1000000000>>[n + 1]

\* number of decimal digits of a positive integer below 2^31
Digits(a) ==
    IF a < 10 THEN 1 ELSE IF a < 100 THEN 2 ELSE IF a < 1000 THEN 3
    ELSE IF a < 10000 THEN 4 ELSE IF a < 100000 THEN 5 ELSE IF a < 1000000 THEN 6
    ELSE IF a < 10000000 THEN 7 ELSE IF a < 100000000 THEN 8
    ELSE IF a < 1000000000 THEN 9 ELSE 10

\* the finite number mm * 10^ee with the mantissa cut to four digits
Norm(mm, ee) ==
    IF mm = 0 THEN Zero
    ELSE LET a == AbsInt(mm)
             d == Digits(a)
         IN IF d > 4
            THEN [k |-> "fin", m |-> SgnInt(mm) * (a \div Pow10(d - 4)), e |-> ee + (d - 4)]
            ELSE [k |-> "fin", m |-> SgnInt(mm) * (a * Pow10(4 - d)), e |-> ee - (4 - d)]

\* integer literal
Num(n) == Norm(n, 0)

IsNaN(x) == x.k = "nan"

IsInf(x) == x.k = "inf"

IsFin(x) == x.k = "fin"

IsZero(x) == x.k = "fin" /\ x.m = 0

\* -1, 0 or 1; 0 for NaN as well
Sgn(x) == IF x.k = "nan" THEN 0 ELSE SgnInt(x.m)

Neg(x) == IF x.k = "nan" THEN NaN ELSE [x EXCEPT !.m = -x.m]

\* Math.abs
Abs(x) == IF x.k = "nan" THEN NaN ELSE [x EXCEPT !.m = AbsInt(x.m)]

\* x * y
Mul(x, y) ==
    IF IsNaN(x) \/ IsNaN(y) THEN NaN
    ELSE IF IsInf(x) \/ IsInf(y)
         THEN IF IsZero(x) \/ IsZero(y) THEN NaN
              ELSE IF Sgn(x) * Sgn(y) > 0 THEN PInf ELSE NInf
         ELSE Norm(x.m * y.m, x.e + y.e)

\* x / y
Div(x, y) ==
    IF IsNaN(x) \/ IsNaN(y) THEN NaN
    ELSE IF IsInf(x)
         THEN IF IsInf(y) THEN NaN
              ELSE IF Sgn(x) * (IF Sgn(y) < 0 THEN -1 ELSE 1) > 0 THEN PInf ELSE NInf
         ELSE IF IsInf(y) THEN Zero
         ELSE IF IsZero(y)
              THEN IF IsZero(x) THEN NaN ELSE IF Sgn(x) > 0 THEN PInf ELSE NInf
              ELSE Norm(SgnInt(x.m) * SgnInt(y.m) * ((AbsInt(x.m) * 10000) \div AbsInt(y.m)),
                        x.e - y.e - 4)

\* x + y
Add(x, y) ==
    IF IsNaN(x) \/ IsNaN(y) THEN NaN
    ELSE IF IsInf(x)
         THEN IF IsInf(y) /\ x.m # y.m THEN NaN ELSE x
         ELSE IF IsInf(y) THEN y
         ELSE IF IsZero(x) THEN y
         ELSE IF IsZero(y) THEN x
         ELSE IF x.e - y.e >= 5 THEN x
         ELSE IF y.e - x.e >= 5 THEN y
         ELSE IF x.e >= y.e THEN Norm(x.m * Pow10(x.e - y.e) + y.m, y.e)
         ELSE Norm(y.m * Pow10(y.e - x.e) + x.m, x.e)

\* x - y
Sub(x, y) == Add(x, Neg(y))

\* x === y on numbers (NaN equals nothing)
Eq(x, y) == ~IsNaN(x) /\ ~IsNaN(y) /\ x = y

\* x < y (false when either is NaN)
Lt(x, y) == ~IsNaN(x) /\ ~IsNaN(y) /\ x # y /\ Sgn(Sub(x, y)) < 0

\* x <= y
Le(x, y) == Lt(x, y) \/ Eq(x, y)

\* x > y
Gt(x, y) == Lt(y, x)

\* x >= y
Ge(x, y) == Le(y, x)

\* halvings that bring t (10000 <= t < 100000) into [10000, 20000)
Halvings(t) == IF t < 20000 THEN 0 ELSE IF t < 40000 THEN 1 ELSE IF t < 80000 THEN 2 ELSE 3

\* ln(x) in units of 10^-4, for a finite x > 0 (ln 2 = 6931, ln 10 = 23026)
LnFix(x) ==
    LET t0 == x.m * 10
        h == Halvings(t0)
        t == t0 \div <<1, 2, 4, 8>>[h + 1]
        z == ((t - 10000) * 10000) \div (t + 10000)
        z2 == (z * z) \div 10000
        z3 == (z * z2) \div 10000
        z5 == (z3 * z2) \div 10000
        z7 == (z5 * z2) \div 10000
    IN 2 * (z + (z3 \div 3) + (z5 \div 5) + (z7 \div 7)) + h * 6931 + (x.e + 3) * 23026

\* exp(y) for y in units of 10^-4
ExpFix(y) ==
    LET ee == y \div 23026
        r == y - ee * 23026
        h == r \div 6931
        s == r - h * 6931
        t2 == (s * s) \div 20000
        t3 == (t2 * s) \div 30000
        t4 == (t3 * s) \div 40000
        t5 == (t4 * s) \div 50000
    IN Norm((10000 + s + t2 + t3 + t4 + t5) * <<1, 2, 4, 8>>[h + 1], ee - 4)

\* Math.pow(x, pn/pd) for a non-integer exponent pn/pd, pd > 0
Pow(x, pn, pd) ==
    IF IsNaN(x) THEN NaN
    ELSE IF IsInf(x) THEN (IF pn > 0 THEN PInf ELSE Zero)
    ELSE IF IsZero(x) THEN (IF pn > 0 THEN Zero ELSE PInf)
    ELSE IF Sgn(x) < 0 THEN NaN
    ELSE ExpFix((LnFix(x) * pn) \div pd)

\* Math.log(x)
Log(x) ==
    IF IsNaN(x) THEN NaN
    ELSE IF IsInf(x) THEN (IF Sgn(x) > 0 THEN PInf ELSE NaN)
    ELSE IF IsZero(x) THEN NInf
    ELSE IF Sgn(x) < 0 THEN NaN
    ELSE Norm(LnFix(x), -4)

\* Math.PI
PI == Norm(3142, -3)

\* undefined (an absent property of the input object)
Undef == [k |-> "undef", m |-> 0, e |-> 0]

\* null
NULL == [k |-> "null", m |-> 0, e |-> 0]

\* a value that is falsy in "v || d": undefined, 0 and NaN
Falsy(v) == v.k = "undef" \/ v.k = "nan" \/ (v.k = "fin" /\ v.m = 0)

\* v || d
OrElse(v, d) == IF Falsy(v) THEN d ELSE v

\* parseFloat(v) of undefined or of a number
ParseFloat(v) == IF v.k = "undef" THEN NaN ELSE v

\* parseInt(v) of undefined or of a number: the integer part
ParseInt(v) ==
    IF v.k = "undef" \/ v.k = "nan" \/ v.k = "inf" THEN NaN
    ELSE IF v.e >= 0 THEN v
    ELSE IF v.e <= -4 THEN Zero
    ELSE Norm(SgnInt(v.m) * (AbsInt(v.m) \div Pow10(-v.e)), 0)

\* the number x.toFixed(n) denotes, n in {0, 1}: x rounded to n decimal places
ToFixed(x, n) ==
    IF x.k # "fin" \/ x.e >= -n THEN x
    ELSE IF -n - x.e >= 5 THEN Zero
    ELSE Norm(SgnInt(x.m) * ((AbsInt(x.m) + 5 * Pow10(-n - 1 - x.e)) \div Pow10(-n - x.e)), -n)

\* Math.floor
Floor(x) ==
    IF x.k # "fin" \/ x.e >= 0 THEN x
    ELSE IF x.e < -4 THEN (IF x.m < 0 THEN Num(-1) ELSE Zero)
    ELSE LET q == AbsInt(x.m) \div Pow10(-x.e)
             r == AbsInt(x.m) % Pow10(-x.e)
         IN IF x.m > 0 THEN Num(q) ELSE Num(-(q + (IF r > 0 THEN 1 ELSE 0)))

\* Math.ceil
Ceil(x) == Neg(Floor(Neg(x)))

\* Math.sqrt
Sqrt(x) == IF x.k = "inf" /\ x.m < 0 THEN NaN ELSE Pow(x, 1, 2)

\* Math.exp
Exp(x) ==
    IF x.k = "nan" THEN NaN
    ELSE IF x.k = "inf" THEN (IF x.m > 0 THEN PInf ELSE Zero)
    ELSE IF x.e + 4 > 2 THEN (IF x.m > 0 THEN PInf ELSE Zero)
    ELSE IF x.e + 4 >= 0 THEN ExpFix(x.m * Pow10(x.e + 4))
    ELSE IF x.e + 4 < -4 THEN Num(1)
    ELSE ExpFix(x.m \div Pow10(-(x.e + 4)))

\* a property used as a number: undefined becomes NaN
ToNum(v) == IF v.k = "undef" THEN NaN ELSE v

(* ----------------------------------------------------------------------- *)
(* Double-pipe optimizer: src/projects/dphx/script.js                      *)
(* ----------------------------------------------------------------------- *)

Pipe(name, od4, id4) == [name |-> name, od |-> Norm(od4, -4), id |-> Norm(id4, -4)]

\* Standard Schedule 40 steel pipes (metres)
STANDARD_PIPES == <<
    Pipe("1/2 inch", 213, 158),
    Pipe("3/4 inch", 267, 209),
    Pipe("1 inch", 334, 266),
    Pipe("1.25 inch", 422, 351),
    Pipe("1.5 inch", 483, 409),
    Pipe("2 inch", 603, 525),
    Pipe("2.5 inch", 730, 627),
    Pipe("3 inch", 889, 779),
    Pipe("4 inch", 1143, 1023),
    Pipe("6 inch", 1683, 1541) >>

\* error messages of calculateDPHX
ErrNoFlow == "Provide at least one Mass Flow Rate."
ErrNeedTemps == "To find Mass Flow, ALL 4 temperatures must be known."
ErrMismatch == "Energy Balance Mismatch (>5%)"
ErrCross == "Temp Cross in Counter-Current!"
ErrLMTD == "Invalid LMTD (Check Temps)"
ErrNoDesign == "No standard pipe combination met the constraints (dP or Velocity). Try relaxing dP limits or increasing Flow Rate."

VARIABLES
    data,            \* the input object of the call
    pc,              \* position in calculateDPHX: "start", "search", "finish", "done"
    m_h, m_c,        \* mass flows after the energy balance
    T_h_out, T_c_out,\* outlet temperatures after the energy balance
    Q, LMTD, max_dp, \* duty, log-mean temperature difference, allowable pressure drop
    i, j,            \* loop indices (0-based, as in the source)
    logs,            \* the trial log
    best_design,     \* best candidate so far, or NULL
    min_cost_metric, \* its required area, or Infinity
    result           \* the returned object, or NULL before the return

\* state of a call of calculateSTHX (src/projects/sthx/script.js)
VARIABLES
    inputData,       \* the input object of the call
    spc,             \* position in calculateSTHX / runDesignIteration
    U_assumed,       \* the current guess of the overall coefficient
    iter,            \* the loop index i of runDesignIteration
    slogs,           \* the logs array
    bestDesign,      \* the converged rating, or NULL
    sresult          \* the returned object, or NULL before the return

dvars == <<data, pc, m_h, m_c, T_h_out, T_c_out, Q, LMTD, max_dp, i, j, logs,
           best_design, min_cost_metric, result>>

svars == <<inputData, spc, U_assumed, iter, slogs, bestDesign, sresult>>

\* what a caller has seen so far: the first result returned for each input of
\* calculateDPHX and of the rating call, and the number of calls made
VARIABLES seen, sseen, calls

hvars == <<seen, sseen, calls>>

\* the legacy double-pipe calculation: its argument, its position with its local
\* variables, and the object it returns
VARIABLES ldata, leg, lresult

vars == <<dvars, svars, hvars, ldata, leg, lresult>>

\* no call has been made before, and the legacy calculation is not in use
NoHistory ==
    /\ seen = <<>> /\ sseen = <<>> /\ calls = 0
    /\ ldata = NULL /\ leg = [pc |-> "idle"] /\ lresult = NULL

\* number of catalog entries (STANDARD_PIPES.length)
NPIPES == Len(STANDARD_PIPES)

\* the returned object of an early "return { error: ... }"
ErrorResult(msg) == [success |-> FALSE, error |-> msg, opt |-> NULL, has_logs |-> FALSE, logs |-> <<>>]

\* lines 33-55: the parsed inputs
Parsed(d) ==
    [m_h |-> ParseFloat(d.m_h),
     T_h_in |-> ParseFloat(d.T_h_in),
     T_h_out |-> ParseFloat(OrElse(d.T_h_out, Num(-1))),
     m_c |-> ParseFloat(d.m_c),
     T_c_in |-> ParseFloat(d.T_c_in),
     T_c_out |-> ParseFloat(OrElse(d.T_c_out, Num(-1))),
     Cp_h |-> Mul(ParseFloat(d.Cp_h), Num(1000)),
     rho_h |-> ParseFloat(d.rho_h),
     mu_h |-> ParseFloat(d.mu_h),
     k_h |-> ParseFloat(d.k_h),
     Cp_c |-> Mul(ParseFloat(d.Cp_c), Num(1000)),
     rho_c |-> ParseFloat(d.rho_c),
     mu_c |-> ParseFloat(d.mu_c),
     k_c |-> ParseFloat(d.k_c),
     flow_type |-> ParseInt(OrElse(d.flow_type, Num(1))),
     foul_h |-> ParseFloat(OrElse(d.Rf_h, Norm(2, -4))),
     foul_c |-> ParseFloat(OrElse(d.Rf_c, Norm(2, -4))),
     max_dp |-> ParseFloat(OrElse(d.allowable_dp_inner, Num(70000)))]

\* the 5% tolerance test of line 88: Math.abs(Qh - Qc) > 0.05 * Qh
Mismatch(Qh, Qc) == Gt(Abs(Sub(Qh, Qc)), Mul(Norm(5, -2), Qh))

\* lines 57-91: the energy balance. err is "" when the balance closes.
EnergyBalance(p) ==
    LET ok(mh, mc, tho, tco, q) ==
            [err |-> "", m_h |-> mh, m_c |-> mc, T_h_out |-> tho, T_c_out |-> tco, Q |-> q]
        bad(msg) ==
            [err |-> msg, m_h |-> p.m_h, m_c |-> p.m_c, T_h_out |-> p.T_h_out,
             T_c_out |-> p.T_c_out, Q |-> NaN]
        Qcold == Mul(Mul(p.m_c, p.Cp_c), Sub(p.T_c_out, p.T_c_in))
        Qhot == Mul(Mul(p.m_h, p.Cp_h), Sub(p.T_h_in, p.T_h_out))
    IN IF IsNaN(p.m_h) /\ IsNaN(p.m_c) THEN bad(ErrNoFlow)
       ELSE IF IsNaN(p.m_h) \/ IsNaN(p.m_c)
       THEN IF Eq(p.T_h_out, Num(-1)) \/ Eq(p.T_c_out, Num(-1)) THEN bad(ErrNeedTemps)
            ELSE IF IsNaN(p.m_h)
                 THEN ok(Div(Qcold, Mul(p.Cp_h, Sub(p.T_h_in, p.T_h_out))), p.m_c,
                         p.T_h_out, p.T_c_out, Qcold)
                 ELSE ok(p.m_h, Div(Qhot, Mul(p.Cp_c, Sub(p.T_c_out, p.T_c_in))),
                         p.T_h_out, p.T_c_out, Qhot)
       ELSE IF Eq(p.T_h_out, Num(-1))
            THEN ok(p.m_h, p.m_c, Sub(p.T_h_in, Div(Qcold, Mul(p.m_h, p.Cp_h))),
                    p.T_c_out, Qcold)
            ELSE IF Eq(p.T_c_out, Num(-1))
                 THEN ok(p.m_h, p.m_c, p.T_h_out,
                         Add(p.T_c_in, Div(Qhot, Mul(p.m_c, p.Cp_c))), Qhot)
                 ELSE IF Mismatch(Qhot, Qcold) THEN bad(ErrMismatch)
                      ELSE ok(p.m_h, p.m_c, p.T_h_out, p.T_c_out, Qhot)

\* line 94: the counter-current temperature-cross test
TempCross(p, b) ==
    Eq(p.flow_type, Num(1)) /\ (Lt(b.T_h_out, p.T_c_in) \/ Lt(p.T_h_in, b.T_c_out))

\* lines 97-99: the two terminal temperature differences
DeltaT(p, b) ==
    IF Eq(p.flow_type, Num(1))
    THEN [dt1 |-> Sub(p.T_h_in, b.T_c_out), dt2 |-> Sub(b.T_h_out, p.T_c_in)]
    ELSE [dt1 |-> Sub(p.T_h_in, p.T_c_in), dt2 |-> Sub(b.T_h_out, b.T_c_out)]

\* faulty variant: only the first temperature difference is checked
BadLMTDFirstOnly(dt) == Le(dt.dt1, Zero)

\* line 101
BadLMTD(dt) == Le(dt.dt1, Zero) \/ Le(dt.dt2, Zero)

\* line 102
LMTDOf(dt) ==
    IF Eq(dt.dt1, dt.dt2) THEN dt.dt1
    ELSE Div(Sub(dt.dt1, dt.dt2), Log(Div(dt.dt1, dt.dt2)))

\* lines 57-102: "" when the inputs pass every check, else the error returned
ValidationError(d) ==
    LET p == Parsed(d)
        b == EnergyBalance(p)
    IN IF b.err # "" THEN b.err
       ELSE IF TempCross(p, b) THEN ErrCross
       ELSE IF BadLMTD(DeltaT(p, b)) THEN ErrLMTD
       ELSE ""

\* line 133: the pair fails the 5 mm clearance test and is skipped
TooTight(ii, jj) ==
    Lt(Sub(STANDARD_PIPES[jj + 1].id, STANDARD_PIPES[ii + 1].od), Norm(5, -3))

\* lines 120-138: the diameters and flow areas of a pair of pipes
Geometry(inner_pipe, outer_pipe) ==
    [di |-> inner_pipe.id, do_in |-> inner_pipe.od, Di |-> outer_pipe.id,
     A_inner |-> Div(Mul(Mul(PI, inner_pipe.id), inner_pipe.id), Num(4)),
     A_ann |-> Div(Mul(PI, Sub(Mul(outer_pipe.id, outer_pipe.id),
                               Mul(inner_pipe.od, inner_pipe.od))), Num(4)),
     De_ann |-> Div(Sub(Mul(outer_pipe.id, outer_pipe.id), Mul(inner_pipe.od, inner_pipe.od)),
                    inner_pipe.od)]

\* lines 141-142: g extended with the velocities
Velocities(g, p) ==
    g @@ [v_inner |-> Div(m_h, Mul(p.rho_h, g.A_inner)),
          v_ann |-> Div(m_c, Mul(p.rho_c, g.A_ann))]

\* lines 145-150: g extended with the Reynolds and Prandtl numbers
Reynolds(g, p) ==
    g @@ [Re_inner |-> Div(Mul(Mul(p.rho_h, g.v_inner), g.di), p.mu_h),
          Re_ann |-> Div(Mul(Mul(p.rho_c, g.v_ann), g.De_ann), p.mu_c),
          Pr_h |-> Div(Mul(p.Cp_h, p.mu_h), p.k_h),
          Pr_c |-> Div(Mul(p.Cp_c, p.mu_c), p.k_c)]

\* lines 154-155: g extended with the Nusselt numbers
Nusselt(g) ==
    g @@ [Nu_inner |-> Mul(Mul(Norm(23, -3), Pow(g.Re_inner, 4, 5)), Pow(g.Pr_h, 33, 100)),
          Nu_ann |-> Mul(Mul(Norm(23, -3), Pow(g.Re_ann, 4, 5)), Pow(g.Pr_c, 33, 100))]

\* lines 158-159: g extended with the film coefficients
Coefficients(g, p) ==
    g @@ [hi |-> Div(Mul(g.Nu_inner, p.k_h), g.di),
          ho |-> Div(Mul(g.Nu_ann, p.k_c), g.De_ann)]

\* line 164: g extended with the overall coefficient
OverallU(g, p) ==
    g @@ [U |-> Div(Num(1),
                    Add(Add(Add(Mul(Div(g.do_in, g.di), Div(Num(1), g.hi)),
                                Mul(Div(g.do_in, g.di), p.foul_h)),
                            p.foul_c),
                        Div(Num(1), g.ho)))]

\* line 167: g extended with the required area
Area(g) == g @@ [A_req |-> Div(Q, Mul(g.U, LMTD))]

\* lines 168-173: g extended with the required length and the friction factors
Length(g) ==
    g @@ [L_req |-> Div(g.A_req, Mul(PI, g.do_in)),
          f_in |-> Mul(Norm(316, -3), Pow(g.Re_inner, -1, 4)),
          f_ann |-> Mul(Norm(316, -3), Pow(g.Re_ann, -1, 4)),
          Dh_ann |-> Sub(g.Di, g.do_in)]

\* lines 176-178: g extended with the pressure drops
PressureDrops(g, p) ==
    g @@ [dP_in |-> Mul(Mul(Mul(Mul(Mul(g.f_in, Div(g.L_req, g.di)), Norm(5, -1)), p.rho_h),
                            g.v_inner), g.v_inner),
          dP_ann |-> Mul(Mul(Mul(Mul(Mul(g.f_ann, Div(g.L_req, g.Dh_ann)), Norm(5, -1)), p.rho_c),
                             g.v_ann), g.v_ann)]

\* lines 181-182: g extended with the two constraint checks
Checks(g) ==
    g @@ [velocity_ok |-> Lt(g.v_inner, Num(4)) /\ Lt(g.v_ann, Num(4)),
          dp_ok |-> Lt(g.dP_in, max_dp) /\ Lt(g.dP_ann, max_dp)]

\* the values of a trial that the log line and the candidate object are built from
TrialRecord(ii, jj, g) ==
    [inner |-> ii, outer |-> jj,
     U |-> g.U, A_req |-> g.A_req, L_req |-> g.L_req, dP_in |-> g.dP_in, dP_ann |-> g.dP_ann,
     Re_in |-> g.Re_inner, Re_ann |-> g.Re_ann, h_in |-> g.hi, h_ann |-> g.ho,
     v_in |-> g.v_inner, v_ann |-> g.v_ann,
     velocity_ok |-> g.velocity_ok, dp_ok |-> g.dp_ok]

\* lines 126-182: the loop body for the pair (ii, jj), statement block by statement block
TrialSteps(ii, jj, p) ==
    TrialRecord(ii, jj,
        Checks(PressureDrops(Length(Area(OverallU(Coefficients(Nusselt(Reynolds(Velocities(
            Geometry(STANDARD_PIPES[ii + 1], STANDARD_PIPES[jj + 1]), p), p)), p), p))), p)))

TrialOf(ii, jj) == TrialSteps(ii, jj, Parsed(data))

\* lines 191-211: the candidate object built from a trial
DesignOf(t) ==
    [k |-> "design", inner_pipe |-> STANDARD_PIPES[t.inner + 1], outer_pipe |-> STANDARD_PIPES[t.outer + 1],
     inner |-> t.inner, outer |-> t.outer,
     U |-> t.U, A_req |-> t.A_req, L_req |-> t.L_req, dP_in |-> t.dP_in, dP_ann |-> t.dP_ann,
     Re_in |-> t.Re_in, Re_ann |-> t.Re_ann, h_in |-> t.h_in, h_ann |-> t.h_ann,
     v_in |-> t.v_in, v_ann |-> t.v_ann,
     Q |-> Q, LMTD |-> LMTD, m_h |-> m_h, m_c |-> m_c, T_h_out |-> T_h_out, T_c_out |-> T_c_out]

\* line 185: the log line of a trial (pipe names, U, L and dP_in/1000 to one decimal)
LogLine(t) ==
    [inner |-> STANDARD_PIPES[t.inner + 1].name, outer |-> STANDARD_PIPES[t.outer + 1].name,
     U |-> ToFixed(t.U, 1), L |-> ToFixed(t.L_req, 1), dP_in |-> ToFixed(Div(t.dP_in, Num(1000)), 1)]

\* faulty variant: any feasible trial replaces the best so far
ImprovesAnyFeasible(t, best) == t.velocity_ok /\ t.dp_ok

\* faulty variant: a trial of equal area replaces the best so far
ImprovesOrTies(t, best) == t.velocity_ok /\ t.dp_ok /\ Le(t.A_req, best)

\* faulty variant: the velocity limit is not checked
ImprovesNoVelocity(t, best) == t.dp_ok /\ Lt(t.A_req, best)

\* lines 187, 189: the trial is feasible and improves on the best so far
Improves(t, best) == t.velocity_ok /\ t.dp_ok /\ Lt(t.A_req, best)

\* the increments of the two for loops (lines 119, 123)
Advance ==
    IF j + 1 < NPIPES THEN i' = i /\ j' = j + 1 /\ pc' = "search"
    ELSE IF i + 1 < NPIPES - 1 THEN i' = i + 1 /\ j' = i + 2 /\ pc' = "search"
    ELSE i' = i + 1 /\ j' = j + 1 /\ pc' = "finish"

\* the inputs of one call
Water == [Cp |-> Norm(418, -2), rho |-> Num(997), mu |-> Norm(89, -5), k |-> Norm(607, -3)]

Inputs ==
    [m_h : {Undef, Zero, Num(2)}, T_h_in : {Num(80), Num(50)},
     T_h_out : {Undef, Num(-1), Zero, Num(50), Num(60)},
     m_c : {Undef, Norm(25, -1)}, T_c_in : {Num(20)}, T_c_out : {Undef, Num(12), Num(45), Num(70)},
     Cp_h : {Water.Cp}, rho_h : {Water.rho}, mu_h : {Water.mu}, k_h : {Water.k},
     Cp_c : {Water.Cp}, rho_c : {Water.rho}, mu_c : {Water.mu}, k_c : {Water.k},
     flow_type : {Undef, Num(2)}, Rf_h : {Undef}, Rf_c : {Undef},
     allowable_dp_inner : {Undef, Num(1)}]

\* no call of calculateSTHX is in progress
SIdle ==
    /\ inputData = NULL /\ spc = "idle" /\ U_assumed = NaN /\ iter = 0
    /\ slogs = <<>> /\ bestDesign = NULL /\ sresult = NULL

Init ==
    /\ SIdle /\ NoHistory
    /\ data \in Inputs
    /\ pc = "start"
    /\ m_h = NaN /\ m_c = NaN /\ T_h_out = NaN /\ T_c_out = NaN
    /\ Q = NaN /\ LMTD = NaN /\ max_dp = NaN
    /\ i = 0 /\ j = 0
    /\ logs = <<>>
    /\ best_design = NULL
    /\ min_cost_metric = PInf
    /\ result = NULL

\* lines 33-117: parse, energy balance, temperature checks, LMTD, loop entry
Validate ==
    /\ pc = "start"
    /\ LET p == Parsed(data)
           b == EnergyBalance(p)
           err == ValidationError(data)
       IN IF err # ""
          THEN /\ result' = ErrorResult(err)
               /\ pc' = "done"
               /\ UNCHANGED <<m_h, m_c, T_h_out, T_c_out, Q, LMTD, max_dp, i, j>>
          ELSE /\ m_h' = b.m_h /\ m_c' = b.m_c
               /\ T_h_out' = b.T_h_out /\ T_c_out' = b.T_c_out
               /\ Q' = b.Q
               /\ LMTD' = LMTDOf(DeltaT(p, b))
               /\ max_dp' = p.max_dp
               /\ i' = 0 /\ j' = 1
               /\ pc' = IF 0 < NPIPES - 1 THEN "search" ELSE "finish"
               /\ result' = result
    /\ UNCHANGED <<data, logs, best_design, min_cost_metric, svars, hvars, ldata, leg, lresult>>

\* line 133: a pair without the clearance is skipped ("continue")
SkipPair ==
    /\ pc = "search"
    /\ TooTight(i, j)
    /\ Advance
    /\ UNCHANGED <<data, m_h, m_c, T_h_out, T_c_out, Q, LMTD, max_dp, logs,
                   best_design, min_cost_metric, result, svars, hvars, ldata, leg, lresult>>

\* faulty variant: only feasible trials are logged
PushFeasibleOnly(lg, t) == IF t.velocity_ok /\ t.dp_ok THEN Append(lg, LogLine(t)) ELSE lg

\* line 185: logs.push(...)
Push(lg, t) == Append(lg, LogLine(t))

\* faulty variant: the improving candidate is kept but the metric is not updated
LogAndSelectStaleMetric(t) ==
    /\ logs' = Push(logs, t)
    /\ IF Improves(t, min_cost_metric)
       THEN min_cost_metric' = min_cost_metric /\ best_design' = DesignOf(t)
       ELSE UNCHANGED <<min_cost_metric, best_design>>

\* lines 185-213: the trial t is logged and, when it improves on the best, kept
LogAndSelect(t) ==
    /\ logs' = Push(logs, t)
    /\ IF Improves(t, min_cost_metric)
       THEN min_cost_metric' = t.A_req /\ best_design' = DesignOf(t)
       ELSE UNCHANGED <<min_cost_metric, best_design>>

\* lines 126-213: one pass of the inner loop body
Trial ==
    /\ pc = "search"
    /\ ~TooTight(i, j)
    /\ LogAndSelect(TrialOf(i, j))
    /\ Advance
    /\ UNCHANGED <<data, m_h, m_c, T_h_out, T_c_out, Q, LMTD, max_dp, result, svars, hvars, ldata, leg, lresult>>

\* faulty variant: the failure after the search is returned without the log
FinalResultNoLogs(best, lg) ==
    IF best = NULL
    THEN [success |-> FALSE, error |-> ErrNoDesign, opt |-> NULL, has_logs |-> FALSE, logs |-> <<>>]
    ELSE [success |-> TRUE, error |-> "", opt |-> best, has_logs |-> TRUE, logs |-> lg]

\* lines 217-229: the object returned after the search
FinalResult(best, lg) ==
    IF best = NULL
    THEN [success |-> FALSE, error |-> ErrNoDesign, opt |-> NULL, has_logs |-> TRUE, logs |-> lg]
    ELSE [success |-> TRUE, error |-> "", opt |-> best, has_logs |-> TRUE, logs |-> lg]

\* lines 217-229: the return after the search
Finish ==
    /\ pc = "finish"
    /\ result' = FinalResult(best_design, logs)
    /\ pc' = "done"
    /\ UNCHANGED <<data, m_h, m_c, T_h_out, T_c_out, Q, LMTD, max_dp, i, j, logs,
                   best_design, min_cost_metric, svars, hvars, ldata, leg, lresult>>

Next == Validate \/ SkipPair \/ Trial \/ Finish

Spec == Init /\ [][Next]_vars

(* ----------------------------------------------------------------------- *)
(* Shell-and-tube solver: src/projects/sthx/script.js                      *)
(* ----------------------------------------------------------------------- *)

\* TEMA_STANDARDS.shells: inches converted to metres
TEMA_SHELLS ==
    [n \in 1 .. 13 |->
        Mul(Num(<<8, 10, 12, 14, 16, 18, 20, 24, 30, 36, 42, 48, 60>>[n]), Norm(254, -4))]

ErrNoDuty == "Insufficient thermal data to calc Duty (Q)."

\* a value that is truthy in "a && b"
Truthy(v) == ~Falsy(v)

\* calculateDuty(Hot, Cold)
calculateDuty(Hot, Cold) ==
    IF Truthy(Hot.m) /\ Truthy(Hot.Tin) /\ Truthy(Hot.Tout)
    THEN Mul(Mul(ToNum(Hot.m), ToNum(Hot.cp)), Sub(ToNum(Hot.Tin), ToNum(Hot.Tout)))
    ELSE IF Truthy(Cold.m) /\ Truthy(Cold.Tin) /\ Truthy(Cold.Tout)
    THEN Mul(Mul(ToNum(Cold.m), ToNum(Cold.cp)), Sub(ToNum(Cold.Tout), ToNum(Cold.Tin)))
    ELSE Num(100000)

\* calculateLMTD(Hot, Cold, passes).LMTD
calculateLMTD(Hot, Cold) ==
    LET dt1 == Sub(ToNum(Hot.Tin), ToNum(Cold.Tout))
        dt2 == Sub(ToNum(Hot.Tout), ToNum(Cold.Tin))
        lmtd == Div(Sub(dt1, dt2), Log(Div(dt1, dt2)))
    IN Mul(lmtd, Norm(9, -1))

\* lines 242-252: the input merged over the defaults
Merged(d) ==
    [d EXCEPT !.U_guess = IF d.U_guess = Undef THEN Num(500) ELSE d.U_guess,
              !.tube_length = IF d.tube_length = Undef THEN Num(3) ELSE d.tube_length,
              !.tube_passes = IF d.tube_passes = Undef THEN Num(2) ELSE d.tube_passes]

\* faulty variant: the pressure rule is tried before the viscosity rule
AutoAllocationPressureFirst(D) ==
    LET h_visc == Gt(ToNum(D.hot.mu), Norm(1, -1))
        c_visc == Gt(ToNum(D.cold.mu), Norm(1, -1))
        h_pres == Gt(ToNum(D.hot.P), Num(20))
        c_pres == Gt(ToNum(D.cold.P), Num(20))
    IN IF h_pres /\ ~c_pres THEN "cold_shell"
       ELSE IF c_pres /\ ~h_pres THEN "hot_shell"
       ELSE IF h_visc /\ ~c_visc THEN "hot_shell"
       ELSE IF c_visc /\ ~h_visc THEN "cold_shell"
       ELSE IF Gt(ToNum(D.hot.fouling), Mul(ToNum(D.cold.fouling), Num(5))) THEN "cold_shell"
       ELSE "hot_shell"

\* lines 259-287: the allocation chosen in auto mode
AutoAllocation(D) ==
    LET h_visc == Gt(ToNum(D.hot.mu), Norm(1, -1))
        c_visc == Gt(ToNum(D.cold.mu), Norm(1, -1))
        h_pres == Gt(ToNum(D.hot.P), Num(20))
        c_pres == Gt(ToNum(D.cold.P), Num(20))
    IN IF h_visc /\ ~c_visc THEN "hot_shell"
       ELSE IF c_visc /\ ~h_visc THEN "cold_shell"
       ELSE IF h_pres /\ ~c_pres THEN "cold_shell"
       ELSE IF c_pres /\ ~h_pres THEN "hot_shell"
       ELSE IF Gt(ToNum(D.hot.fouling), Mul(ToNum(D.cold.fouling), Num(5))) THEN "cold_shell"
       ELSE "hot_shell"

\* lines 252-287: D after the merge and the allocation
Allocated(d) ==
    LET D == Merged(d)
    IN IF D.allocation_mode = "auto" THEN [D EXCEPT !.allocation = AutoAllocation(D)] ELSE D

\* lines 290-295
ShellSideOf(D) == IF D.allocation = "hot_shell" THEN D.hot ELSE D.cold

TubeSideOf(D) == IF D.allocation = "hot_shell" THEN D.cold ELSE D.hot

\* lines 402-410: the geometry unpacked
Unpacked(Geom) ==
    LET Ds == ToNum(Geom.shell_ID)
        Lt_ == ToNum(Geom.tube_length)
        B == IF Falsy(Geom.baffle_spacing) THEN Mul(Ds, Norm(4, -1)) ELSE Geom.baffle_spacing
    IN [Ds |-> Ds, do_t |-> ToNum(Geom.tube_od), di_t |-> ToNum(Geom.tube_id), Lt |-> Lt_,
        Nt |-> ToNum(Geom.total_tubes), Np |-> ToNum(Geom.tube_passes),
        Pitch |-> ToNum(Geom.tube_pitch), B |-> B,
        Nb |-> IF Falsy(Geom.baffles_n) THEN Sub(Ceil(Div(Lt_, B)), Num(1)) ELSE Geom.baffles_n]

\* lines 414-419: tube-side velocity and Reynolds number
TubeFlow(TubeFluid, u) ==
    LET at == Mul(Div(Mul(Mul(PI, u.di_t), u.di_t), Num(4)), Div(u.Nt, u.Np))
        Gt_ == Div(ToNum(TubeFluid.m), at)
        Vt == Div(Gt_, ToNum(TubeFluid.rho))
    IN [Vt |-> Vt,
        Re_t |-> Div(Mul(Mul(ToNum(TubeFluid.rho), Vt), u.di_t), ToNum(TubeFluid.mu))]

\* lines 420-431: tube-side film coefficient and pressure drop
TubeSide(TubeFluid, u, tf) ==
    LET rho_t == ToNum(TubeFluid.rho)
        k_t == ToNum(TubeFluid.k)
        Pr_t == Div(Mul(ToNum(TubeFluid.cp), ToNum(TubeFluid.mu)), k_t)
        Nu_t == Mul(Mul(Norm(23, -3), Pow(tf.Re_t, 4, 5)), Pow(Pr_t, 33, 100))
        f_t == Mul(Norm(46, -3), Pow(tf.Re_t, -1, 5))
        halfRhoV2 == Mul(Mul(Mul(Norm(5, -1), rho_t), tf.Vt), tf.Vt)
        dP_t_frict == Mul(Div(Mul(Mul(Mul(Num(4), f_t), u.Lt), u.Np), u.di_t), halfRhoV2)
        dP_t_return == Mul(Mul(Num(4), u.Np), halfRhoV2)
    IN [Vt |-> tf.Vt, Re_t |-> tf.Re_t,
        h_t |-> Div(Mul(Nu_t, k_t), u.di_t),
        dP_t |-> Add(dP_t_frict, dP_t_return)]

\* lines 436-450: shell-side equivalent diameter, velocity and Reynolds number
ShellFlow(ShellFluid, pitch_type, u) ==
    LET De == IF pitch_type = "square"
              THEN Div(Mul(Num(4), Sub(Mul(u.Pitch, u.Pitch),
                                       Mul(Div(PI, Num(4)), Mul(u.do_t, u.do_t)))),
                       Mul(PI, u.do_t))
              ELSE Div(Mul(Num(4),
                           Sub(Mul(Mul(Norm(5, -1), Norm(866, -3)), Mul(u.Pitch, u.Pitch)),
                               Mul(Mul(Norm(5, -1), Div(PI, Num(4))), Mul(u.do_t, u.do_t)))),
                       Mul(Mul(Norm(5, -1), PI), u.do_t))
        Clearance == Sub(u.Pitch, u.do_t)
        As == Div(Mul(Mul(u.Ds, Clearance), u.B), u.Pitch)
        Gs == Div(ToNum(ShellFluid.m), As)
    IN [De |-> De, Gs |-> Gs, Vs |-> Div(Gs, ToNum(ShellFluid.rho)),
        Re_s |-> Div(Mul(Gs, De), ToNum(ShellFluid.mu))]

\* lines 451-461: shell-side film coefficient and pressure drop
ShellSide(ShellFluid, u, sf) ==
    LET rho_s == ToNum(ShellFluid.rho)
        k_s == ToNum(ShellFluid.k)
        Pr_s == Div(Mul(ToNum(ShellFluid.cp), ToNum(ShellFluid.mu)), k_s)
        Nu_s == Mul(Mul(Norm(36, -2), Pow(sf.Re_s, 11, 20)), Pow(Pr_s, 33, 100))
        f_s == Exp(Sub(Norm(576, -3), Mul(Norm(19, -2), Log(sf.Re_s))))
    IN [Vs |-> sf.Vs, Re_s |-> sf.Re_s,
        h_s |-> Div(Mul(Nu_s, k_s), sf.De),
        dP_s |-> Div(Mul(Mul(Mul(f_s, Mul(sf.Gs, sf.Gs)), u.Ds), Add(u.Nb, Num(1))),
                     Mul(Mul(Num(2), rho_s), sf.De))]

\* lines 464-473: the overall coefficients
OverallCoefficients(Geom, u, t, s) ==
    LET Rft == ParseFloat(OrElse(Geom.Rf_t, Zero))
        Rfs == ParseFloat(OrElse(Geom.Rf_s, Zero))
        Kw == Num(50)
        Inv_U_clean == Add(Add(Div(Num(1), s.h_s), Mul(Div(u.do_t, u.di_t), Div(Num(1), t.h_t))),
                           Div(Mul(u.do_t, Log(Div(u.do_t, u.di_t))), Mul(Num(2), Kw)))
        Inv_U_dirty == Add(Add(Inv_U_clean, Rfs), Mul(Div(u.do_t, u.di_t), Rft))
    IN [U_clean |-> Div(Num(1), Inv_U_clean), U_dirty |-> Div(Num(1), Inv_U_dirty)]

\* lines 476-480: duty, LMTD and areas
DutyAndArea(ShellFluid, TubeFluid, u, o) ==
    LET Qr == calculateDuty(ShellFluid, TubeFluid)
        LMTDr == calculateLMTD(ShellFluid, TubeFluid)
    IN [Q |-> Qr, LMTD |-> LMTDr,
        A_req |-> Div(Qr, Mul(o.U_dirty, LMTDr)),
        A_prov |-> Mul(Mul(Mul(PI, u.do_t), u.Lt), u.Nt)]

\* lines 482-491: the returned object
RatingResult(u, t, s, o, a) ==
    [k |-> "rating",
     U_clean |-> o.U_clean, U_dirty |-> o.U_dirty, h_s |-> s.h_s, h_t |-> t.h_t,
     dP_s |-> s.dP_s, dP_t |-> t.dP_t, Re_s |-> s.Re_s, Re_t |-> t.Re_t, Vt |-> t.Vt, Vs |-> s.Vs,
     Area_Required |-> a.A_req, Area_Provided |-> a.A_prov,
     Overdesign_Pct |-> Mul(Div(Sub(a.A_prov, a.A_req), a.A_req), Num(100)),
     LMTD |-> a.LMTD, Q |-> a.Q,
     Geometry |-> [Ds |-> u.Ds, Nt |-> u.Nt, B |-> u.B, Lt |-> u.Lt, do_t |-> u.do_t],
     converged |-> "undefined"]

\* the returned object once the overall coefficients are known
RatingWith(ShellFluid, TubeFluid, u, t, s, o) ==
    RatingResult(u, t, s, o, DutyAndArea(ShellFluid, TubeFluid, u, o))

\* the rating once the two sides are known
RatingFrom(ShellFluid, TubeFluid, Geom, u, t, s) ==
    RatingWith(ShellFluid, TubeFluid, u, t, s, OverallCoefficients(Geom, u, t, s))

\* the rating of the unpacked geometry u
RatingOn(ShellFluid, TubeFluid, Geom, u) ==
    RatingFrom(ShellFluid, TubeFluid, Geom, u,
               TubeSide(TubeFluid, u, TubeFlow(TubeFluid, u)),
               ShellSide(ShellFluid, u, ShellFlow(ShellFluid, Geom.pitch_type, u)))

\* lines 400-492: performKernRating(ShellFluid, TubeFluid, Geom)
performKernRating(ShellFluid, TubeFluid, Geom) ==
    RatingOn(ShellFluid, TubeFluid, Geom, Unpacked(Geom))

\* faulty variant: always the largest catalog shell
SnapShellLargest(Ds_est) == TEMA_SHELLS[13]

\* line 349: the first catalog shell >= Ds_est, else the largest one
SnapShell(Ds_est) ==
    LET fits == {n \in 1 .. 13 : Ge(TEMA_SHELLS[n], Ds_est)}
    IN IF fits = {} THEN TEMA_SHELLS[13]
       ELSE TEMA_SHELLS[CHOOSE n \in fits : \A o \in fits : n <= o]

\* line 313
MaxIter == 20

\* lines 334-353: area, tube count and shell of a pass of the design loop
Sizing(D, Qd, LMTDd, U) ==
    LET A_req == Div(Qd, Mul(U, LMTDd))
        Nt_ideal == Div(A_req, Mul(Mul(PI, ToNum(D.tube_od)), ToNum(D.tube_length)))
        Nt == Ceil(Mul(Nt_ideal, Norm(105, -2)))
        Ds_est == Mul(Mul(ToNum(D.tube_pitch), Sqrt(Nt)), Norm(11, -1))
    IN [A_req |-> A_req, Nt |-> Nt, Ds_est |-> Ds_est, Ds_std |-> SnapShell(Ds_est)]

\* line 353: the tubes that fit the chosen shell
TubesIn(D, z) ==
    z @@ [Nt_real |-> Floor(Mul(Norm(785, -3),
                                Mul(Div(z.Ds_std, ToNum(D.tube_pitch)),
                                    Div(z.Ds_std, ToNum(D.tube_pitch)))))]

\* lines 356-361: the rating of the trial geometry
Rated(D, z) ==
    z @@ [rating |-> performKernRating(ShellSideOf(D), TubeSideOf(D),
                         [D EXCEPT !.shell_ID = z.Ds_std, !.total_tubes = z.Nt_real,
                                   !.baffle_spacing = Mul(z.Ds_std, Norm(4, -1))])]

\* lines 363-364: the calculated U and its relative error
Judged(U, z) ==
    z @@ [U_calc |-> z.rating.U_clean, error |-> Div(Sub(z.rating.U_clean, U), U)]

\* lines 333-364: one pass of the design loop for the guess U
IterationOf(D, Qd, LMTDd, U) == Judged(U, Rated(D, TubesIn(D, Sizing(D, Qd, LMTDd, U))))

\* faulty variant: the log line carries the loop variable itself
IterLogZeroBased(n, U, r) ==
    [kind |-> "iter", iter |-> n, U_assumed |-> ToFixed(U, 1),
     shell |-> ToFixed(Mul(r.Ds_std, Num(1000)), 0), U_calc |-> ToFixed(r.U_calc, 1),
     err |-> ToFixed(Mul(r.error, Num(100)), 1)]

\* line 366: the log line of an iteration
IterLog(n, U, r) ==
    [kind |-> "iter", iter |-> n + 1, U_assumed |-> ToFixed(U, 1),
     shell |-> ToFixed(Mul(r.Ds_std, Num(1000)), 0), U_calc |-> ToFixed(r.U_calc, 1),
     err |-> ToFixed(Mul(r.error, Num(100)), 1)]

\* the other log lines (lines 286, 307, 381, 393)
NoteLog(kind) ==
    [kind |-> kind, iter |-> 0, U_assumed |-> Zero, shell |-> Zero, U_calc |-> Zero, err |-> Zero]

\* faulty variant: the tolerance itself counts as converged
ConvergedInclusive(error) == Le(Abs(error), Norm(1, -1))

\* faulty variant: a tolerance of 50%
ConvergedWithin50(error) == Lt(Abs(error), Norm(5, -1))

\* line 368: the convergence test
Converged(error) == Lt(Abs(error), Norm(1, -1))

\* the duty and LMTD of runDesignIteration (lines 324, 328)
DesignQ(D) == calculateDuty(ShellSideOf(D), TubeSideOf(D))

DesignLMTD(D) == calculateLMTD(D.hot, D.cold)

\* a fluid stream of the input
Fluid(m, Tin, Tout, mu, P, fouling) ==
    [m |-> m, Tin |-> Tin, Tout |-> Tout, cp |-> Num(4180), rho |-> Num(997), mu |-> mu,
     k |-> Norm(607, -3), P |-> P, fouling |-> fouling]

HotStreams ==
    {Fluid(m, Num(90), Tout, mu, Num(5), Norm(1, -4)) :
        m \in {Undef, Num(5)}, Tout \in {Undef, Num(60), Num(90)}, mu \in {Norm(89, -5), Norm(486, -3)}}

ColdStreams ==
    {Fluid(m, Tin, Tout, Norm(89, -5), P, Norm(1, -4)) :
        m \in {Undef, Num(8)}, Tin \in {Zero, Num(10), Num(20)}, Tout \in {Undef, Num(40)},
        P \in {Num(1), Num(30)}}

SInputs ==
    [hot : HotStreams, cold : ColdStreams,
     allocation_mode : {"auto", "manual"}, allocation : {"hot_shell", "cold_shell"},
     mode : {"design", "rating"},
     U_guess : {Undef, Num(5), Num(1500), Num(2288)},
     tube_od : {Norm(1905, -5)}, tube_id : {Norm(1575, -5)}, tube_length : {Undef},
     tube_passes : {Undef}, tube_pitch : {Norm(2381, -5)}, pitch_type : {"square", "triangular"},
     shell_ID : {Norm(6, -1)}, total_tubes : {Num(200)},
     baffle_spacing : {Undef}, baffles_n : {Undef}, Rf_t : {Undef}, Rf_s : {Undef}]

\* no call of calculateDPHX is in progress
DIdle ==
    /\ data = NULL /\ pc = "idle"
    /\ m_h = NaN /\ m_c = NaN /\ T_h_out = NaN /\ T_c_out = NaN
    /\ Q = NaN /\ LMTD = NaN /\ max_dp = NaN
    /\ i = 0 /\ j = 0 /\ logs = <<>> /\ best_design = NULL
    /\ min_cost_metric = PInf /\ result = NULL

SInit ==
    /\ DIdle /\ NoHistory
    /\ inputData \in SInputs
    /\ spc = "start"
    /\ U_assumed = NaN
    /\ iter = 0
    /\ slogs = <<>>
    /\ bestDesign = NULL
    /\ sresult = NULL

\* the returned object
SResult(err, design, lg) == [error |-> err, design |-> design, logs |-> lg]

\* the logs after lines 241-287
AllocLogs(d) == IF d.allocation_mode = "auto" THEN <<NoteLog("alloc")>> ELSE <<>>

\* calculateSTHX in rating mode: lines 240-302 and runRatingCalculation (392-397)
RatingCall ==
    /\ spc = "start"
    /\ inputData.mode # "design"
    /\ LET D == Allocated(inputData)
           lg == Append(AllocLogs(inputData), NoteLog("rating"))
       IN /\ slogs' = lg
          /\ sresult' = SResult("", performKernRating(ShellSideOf(D), TubeSideOf(D), D), lg)
    /\ spc' = "done"
    /\ UNCHANGED <<inputData, U_assumed, iter, bestDesign, dvars, hvars, ldata, leg, lresult>>

\* calculateSTHX in design mode up to the loop: lines 240-330
DesignStart ==
    /\ spc = "start"
    /\ inputData.mode = "design"
    /\ LET D == Allocated(inputData)
           lg == Append(AllocLogs(inputData), NoteLog("start"))
           U0 == ParseFloat(D.U_guess)
       IN /\ slogs' = lg
          /\ U_assumed' = IF Falsy(U0) THEN Num(500) ELSE U0
          /\ IF Falsy(DesignQ(D))
             THEN spc' = "done" /\ sresult' = SResult(ErrNoDuty, NULL, <<>>)
             ELSE spc' = "loop" /\ sresult' = sresult
    /\ iter' = 0
    /\ UNCHANGED <<inputData, bestDesign, dvars, hvars, ldata, leg, lresult>>

\* faulty variant: the next guess is the calculated U itself, without damping
LogAndReplace(r) ==
    /\ slogs' = Append(slogs, IterLog(iter, U_assumed, r))
    /\ IF Converged(r.error)
       THEN /\ bestDesign' = [r.rating EXCEPT !.converged = "true"]
            /\ spc' = "after"
            /\ UNCHANGED <<U_assumed, iter>>
       ELSE /\ U_assumed' = r.U_calc
            /\ iter' = iter + 1
            /\ spc' = IF iter + 1 < MaxIter THEN "loop" ELSE "after"
            /\ bestDesign' = bestDesign

\* lines 366-377: the pass r is logged; on convergence its rating is kept and the loop
\* left, otherwise the guess is damped towards the calculated U
LogAndUpdate(r) ==
    /\ slogs' = Append(slogs, IterLog(iter, U_assumed, r))
    /\ IF Converged(r.error)
       THEN /\ bestDesign' = [r.rating EXCEPT !.converged = "true"]
            /\ spc' = "after"
            /\ UNCHANGED <<U_assumed, iter>>
       ELSE /\ U_assumed' = Add(Mul(Norm(5, -1), U_assumed), Mul(Norm(5, -1), r.U_calc))
            /\ iter' = iter + 1
            /\ spc' = IF iter + 1 < MaxIter THEN "loop" ELSE "after"
            /\ bestDesign' = bestDesign

\* the pass of the design loop for the prepared input D
PassOf(D) == IterationOf(D, DesignQ(D), DesignLMTD(D), U_assumed)

\* lines 332-378: one pass of the design loop
Iterate ==
    /\ spc = "loop"
    /\ iter < MaxIter
    /\ LogAndUpdate(PassOf(Allocated(inputData)))
    /\ UNCHANGED <<inputData, sresult, dvars, hvars, ldata, leg, lresult>>

\* line 383: the rating of the fallback geometry
Fallback(D) ==
    performKernRating(ShellSideOf(D), TubeSideOf(D),
                      [D EXCEPT !.shell_ID = Norm(6, -1), !.total_tubes = Num(200)])

\* lines 380-388: the fallback rating and the return
DesignReturn ==
    /\ spc = "after"
    /\ IF bestDesign = NULL
       THEN /\ slogs' = Append(slogs, NoteLog("maxiter"))
            /\ bestDesign' = [Fallback(Allocated(inputData)) EXCEPT !.converged = "false"]
       ELSE UNCHANGED <<slogs, bestDesign>>
    /\ sresult' = SResult("", bestDesign', slogs')
    /\ spc' = "done"
    /\ UNCHANGED <<inputData, U_assumed, iter, dvars, hvars, ldata, leg, lresult>>

SNext == RatingCall \/ DesignStart \/ Iterate \/ DesignReturn

SpecSTHX == SInit /\ [][SNext]_vars

(* ----------------------------------------------------------------------- *)
(* Properties of the double-pipe optimizer                                 *)
(* ----------------------------------------------------------------------- *)

\* all index pairs i < j of the catalog
Pairs == {q \in (0 .. NPIPES - 2) \X (1 .. NPIPES - 1) : q[1] < q[2]}

\* the pairs that pass the clearance test, i.e. the trials of a full search
Enumerated == {q \in Pairs : ~TooTight(q[1], q[2])}

\* the trials already made at the current loop position
Visited == {q \in Enumerated : q[1] < i \/ (q[1] = i /\ q[2] < j)}

\* q comes no later than r in the enumeration order
LexLe(q, r) == q[1] < r[1] \/ (q[1] = r[1] /\ q[2] <= r[2])

\* the pair meets the velocity limit and the pressure-drop limit on both sides
FeasibleAt(q) ==
    LET t == TrialOf(q[1], q[2])
    IN Lt(t.v_in, Num(4)) /\ Lt(t.v_ann, Num(4)) /\ Lt(t.dP_in, max_dp) /\ Lt(t.dP_ann, max_dp)

AreaAt(q) == TrialOf(q[1], q[2]).A_req

\* the call has returned after running the search
Searched == pc = "done" /\ ValidationError(data) = ""

\* C1: when some enumerated pair is feasible, the call succeeds and the returned
\* candidate is feasible with a required area no larger than that of any feasible pair.
C1_MinAreaFeasible ==
    (Searched /\ \E q \in Enumerated : FeasibleAt(q)) =>
        /\ result.success
        /\ result.opt # NULL
        /\ <<result.opt.inner, result.opt.outer>> \in Enumerated
        /\ FeasibleAt(<<result.opt.inner, result.opt.outer>>)
        /\ result.opt.A_req = AreaAt(<<result.opt.inner, result.opt.outer>>)
        /\ \A q \in Enumerated : FeasibleAt(q) => Le(result.opt.A_req, AreaAt(q))

\* C1 witness: a successful search in which the winner is not the first feasible pair
\* and another feasible pair has a strictly larger area.
C1_Witness ==
    /\ Searched /\ result.success
    /\ \E q \in Enumerated :
          /\ FeasibleAt(q)
          /\ LexLe(q, <<result.opt.inner, result.opt.outer>>)
          /\ Lt(result.opt.A_req, AreaAt(q))

\* C2: among feasible pairs of equal minimal area the first enumerated one is kept,
\* at every point of the search and in the returned result.
C2_FirstSeenWinsTies ==
    /\ (pc \in {"search", "finish"} /\ best_design # NULL) =>
          \A q \in Visited :
              (FeasibleAt(q) /\ Eq(AreaAt(q), best_design.A_req)) =>
                  LexLe(<<best_design.inner, best_design.outer>>, q)
    /\ (Searched /\ result.success) =>
          \A q \in Enumerated :
              (FeasibleAt(q) /\ Eq(AreaAt(q), result.opt.A_req)) =>
                  LexLe(<<result.opt.inner, result.opt.outer>>, q)

\* C2 witness: a successful search with a later feasible pair of exactly the winner's area.
C2_Witness ==
    /\ Searched /\ result.success
    /\ \E q \in Enumerated :
          /\ q # <<result.opt.inner, result.opt.outer>>
          /\ FeasibleAt(q)
          /\ Eq(AreaAt(q), result.opt.A_req)

\* C3: a returned candidate is a catalog pair, inner index below outer index, clearance of
\* at least 5 mm, inner pipe id < od, velocities and pressure drops below their limits.
C3_ReturnedCandidateValid ==
    (pc = "done" /\ result.success) =>
        LET o == result.opt
        IN /\ o.inner \in 0 .. NPIPES - 1 /\ o.outer \in 0 .. NPIPES - 1
           /\ o.inner_pipe = STANDARD_PIPES[o.inner + 1]
           /\ o.outer_pipe = STANDARD_PIPES[o.outer + 1]
           /\ o.inner < o.outer
           /\ Ge(Sub(o.outer_pipe.id, o.inner_pipe.od), Norm(5, -3))
           /\ Lt(o.inner_pipe.id, o.inner_pipe.od)
           /\ Lt(o.v_in, Num(4)) /\ Lt(o.v_ann, Num(4))
           /\ Lt(o.dP_in, max_dp) /\ Lt(o.dP_ann, max_dp)

\* C3 witness: a candidate is returned although an earlier pair of smaller area
\* breaks the velocity limit.
C3_Witness ==
    /\ pc = "done" /\ result.success
    /\ \E q \in Enumerated :
          /\ ~Lt(TrialOf(q[1], q[2]).v_in, Num(4))
          /\ Lt(AreaAt(q), result.opt.A_req)

\* C4: the call fails with the no-feasible-design error exactly when the search ran over
\* the whole catalog and no pair was feasible; that result carries the whole log, one
\* entry per enumerated pair, and no candidate.
C4_NoFeasibleDesign ==
    pc = "done" =>
        /\ (result.error = ErrNoDesign) <=>
               (ValidationError(data) = "" /\ \A q \in Enumerated : ~FeasibleAt(q))
        /\ (result.error = ErrNoDesign) =>
               /\ ~result.success /\ result.opt = NULL
               /\ result.has_logs /\ result.logs = logs
               /\ Len(result.logs) = Cardinality(Enumerated)
               /\ i = NPIPES - 1

\* C4 witness: the search ended without a feasible pair.
C4_Witness == pc = "done" /\ result.error = ErrNoDesign /\ Len(result.logs) > 1

\* the pairs tried so far, in enumeration order
RECURSIVE VisitedSeq(_, _)
VisitedSeq(a, b) ==
    IF a >= NPIPES - 1 \/ (a = i /\ b >= j) \/ a > i THEN <<>>
    ELSE LET rest == IF b + 1 < NPIPES THEN VisitedSeq(a, b + 1) ELSE VisitedSeq(a + 1, a + 2)
         IN IF TooTight(a, b) THEN rest ELSE <<<<a, b>>>> \o rest

\* C5: the log holds exactly one entry per trial made so far, feasible or not, in
\* enumeration order (with the trial's own values at the end of the search), and it
\* only grows by appending.
C5_LogOneEntryPerTrial ==
    /\ [](pc \in {"search", "finish"} =>
            LET vs == VisitedSeq(0, 1)
            IN /\ Len(logs) = Len(vs)
               /\ \A n \in 1 .. Len(vs) :
                     /\ logs[n].inner = STANDARD_PIPES[vs[n][1] + 1].name
                     /\ logs[n].outer = STANDARD_PIPES[vs[n][2] + 1].name
                     /\ pc = "finish" => logs[n] = LogLine(TrialOf(vs[n][1], vs[n][2])))
    /\ [][Len(logs') >= Len(logs) /\ SubSeq(logs', 1, Len(logs)) = logs]_vars

\* C5 witness: the log holds entries of infeasible trials and of feasible ones.
C5_Witness ==
    /\ pc = "finish"
    /\ \E q \in Enumerated : FeasibleAt(q)
    /\ \E q \in Enumerated : ~FeasibleAt(q)
    /\ Len(logs) = Cardinality(Enumerated)

\* the temperatures as the calculation has them after the energy balance show a cross
CrossCondition(d) ==
    LET p == Parsed(d)
        b == EnergyBalance(p)
        counter == Eq(p.flow_type, Num(1))
        dt1 == IF counter THEN Sub(p.T_h_in, b.T_c_out) ELSE Sub(p.T_h_in, p.T_c_in)
        dt2 == IF counter THEN Sub(b.T_h_out, p.T_c_in) ELSE Sub(b.T_h_out, b.T_c_out)
    IN /\ b.err = ""
       /\ \/ counter /\ (Lt(p.T_h_in, b.T_c_out) \/ Lt(b.T_h_out, p.T_c_in))
          \/ Le(dt1, Zero)
          \/ Le(dt2, Zero)

\* C6: when the energy balance has passed and the temperatures it leaves show a cross
\* (counter-current ordering violated, or deltaT1 <= 0 or deltaT2 <= 0 for either flow
\* type), the call fails with a temperature-cross error, returns no candidate and runs
\* no trial.
C6_TemperatureCross ==
    (pc = "done" /\ CrossCondition(data)) =>
        /\ result.error \in {ErrCross, ErrLMTD}
        /\ ~result.success /\ result.opt = NULL
        /\ ~result.has_logs /\ logs = <<>> /\ best_design = NULL

\* all four temperatures are supplied (no outlet is missing or a -1 / 0 placeholder)
\* and they show a cross
SuppliedCross(d) ==
    LET p == Parsed(d)
        counter == Eq(p.flow_type, Num(1))
        dt1 == IF counter THEN Sub(p.T_h_in, p.T_c_out) ELSE Sub(p.T_h_in, p.T_c_in)
        dt2 == IF counter THEN Sub(p.T_h_out, p.T_c_in) ELSE Sub(p.T_h_out, p.T_c_out)
    IN /\ d.T_h_out \notin {Undef, Num(-1), Zero}
       /\ d.T_c_out \notin {Undef, Num(-1), Zero}
       /\ \/ counter /\ (Lt(p.T_h_in, p.T_c_out) \/ Lt(p.T_h_out, p.T_c_in))
          \/ Le(dt1, Zero)
          \/ Le(dt2, Zero)

\* C6 as stated, without the condition on the energy balance: every call whose supplied
\* temperatures show a cross fails with a temperature-cross error.
C6_AnyCrossFailsAsCross ==
    (pc = "done" /\ SuppliedCross(data)) =>
        /\ result.error \in {ErrCross, ErrLMTD}
        /\ ~result.success /\ result.opt = NULL
        /\ ~result.has_logs /\ logs = <<>> /\ best_design = NULL

\* C6 witness: a co-current call whose hot outlet lies below the cold outlet.
C6_Witness ==
    /\ pc = "done" /\ CrossCondition(data)
    /\ ~Eq(Parsed(data).flow_type, Num(1))
    /\ result.error = ErrLMTD

\* the duty cannot be computed from what the caller supplied
Underspecified(d) ==
    \/ d.m_h = Undef /\ d.m_c = Undef
    \/ (d.m_h = Undef \/ d.m_c = Undef) /\ (d.T_h_out = Undef \/ d.T_c_out = Undef)
    \/ d.m_h # Undef /\ d.m_c # Undef /\ d.T_h_out = Undef /\ d.T_c_out = Undef

\* C7: when the duty cannot be computed the call fails with an underspecified-energy-
\* balance error before the enumeration: no trial, no candidate.
C7_Underspecified ==
    (pc = "done" /\ Underspecified(data)) =>
        /\ result.error \in {ErrNoFlow, ErrNeedTemps}
        /\ ~result.success /\ result.opt = NULL /\ logs = <<>>

\* both mass flows and all four temperatures are supplied
FullySupplied(d) ==
    /\ d.m_h # Undef /\ d.m_c # Undef
    /\ d.T_h_in # Undef /\ d.T_h_out # Undef /\ d.T_c_in # Undef /\ d.T_c_out # Undef

\* the hot-side and cold-side duties of the supplied data
SuppliedQh(d) == Mul(Mul(d.m_h, Mul(d.Cp_h, Num(1000))), Sub(d.T_h_in, d.T_h_out))

SuppliedQc(d) == Mul(Mul(d.m_c, Mul(d.Cp_c, Num(1000))), Sub(d.T_c_out, d.T_c_in))

\* the two duties differ by more than 5% of the hot-side duty
DiffersMoreThan5(d) ==
    Gt(Abs(Sub(SuppliedQh(d), SuppliedQc(d))), Mul(Norm(5, -2), Abs(SuppliedQh(d))))

\* C9: with everything supplied, duties more than 5% apart give the mismatch error, and
\* duties within 5% let the call proceed with Q equal to the hot-side duty.
C9_EnergyBalanceMismatch ==
    (pc = "done" /\ FullySupplied(data)) =>
        /\ DiffersMoreThan5(data) => result.error = ErrMismatch
        /\ ~DiffersMoreThan5(data) =>
               /\ result.error # ErrMismatch
               /\ (ValidationError(data) = "" => Q = SuppliedQh(data))

\* some trial of the search has a non-positive (or undefined) Reynolds number
InvalidPhysicalState ==
    \E q \in Enumerated :
        LET t == TrialOf(q[1], q[2])
        IN ~Gt(t.Re_in, Zero) \/ ~Gt(t.Re_ann, Zero)

\* C10: every validation failure, an invalid physical state included, is detected before
\* the first pair is evaluated; the result holds the error only.
C10_ValidationBeforeSearch ==
    (pc = "done" /\ (ValidationError(data) # "" \/ InvalidPhysicalState)) =>
        /\ ~result.success /\ result.error # "" /\ result.opt = NULL
        /\ ~result.has_logs /\ logs = <<>>

(* ----------------------------------------------------------------------- *)
(* Properties of the shell-and-tube solver                                 *)
(* ----------------------------------------------------------------------- *)

\* the stream has its mass flow, inlet temperature and outlet temperature
StreamKnown(f) == f.m # Undef /\ f.Tin # Undef /\ f.Tout # Undef

\* the log lines written by passes of the design loop
IterLines == {n \in 1 .. Len(slogs) : slogs[n].kind = "iter"}

\* C8: in design mode, when neither stream has mass flow, inlet and outlet temperature
\* all known, the call returns the insufficient-data error before the first iteration:
\* no iteration is executed and no design is returned.
C8_InsufficientData ==
    (inputData # NULL /\ inputData.mode = "design"
        /\ ~StreamKnown(inputData.hot) /\ ~StreamKnown(inputData.cold)) =>
        /\ spc \notin {"loop", "after"}
        /\ IterLines = {}
        /\ spc = "done" =>
              /\ sresult.error = ErrNoDuty
              /\ sresult.design = NULL

(* ----------------------------------------------------------------------- *)
(* Repeated calls of the two tools by one caller                           *)
(* ----------------------------------------------------------------------- *)

MaxCalls == 3

\* a complete double-pipe input whose search succeeds, and the same input with a
\* cold outlet that breaks the energy balance
CallInputs ==
    {d \in Inputs : /\ d.m_h = Num(2) /\ d.T_h_in = Num(80) /\ d.T_h_out = Num(50)
                    /\ d.m_c = Norm(25, -1) /\ d.T_c_out \in {Undef, Num(70)}
                    /\ d.flow_type = Undef /\ d.allowable_dp_inner = Undef}

\* two rating inputs with every stream value supplied
RatingInputs ==
    {d \in SInputs : /\ d.mode = "rating" /\ d.allocation_mode = "manual"
                     /\ d.allocation = "hot_shell" /\ d.U_guess = Undef
                     /\ d.hot.m = Num(5) /\ d.hot.Tout = Num(60) /\ d.hot.mu = Norm(89, -5)
                     /\ d.cold.m = Num(8) /\ d.cold.Tin = Num(20)
                     /\ d.cold.Tout = Num(40) /\ d.cold.P = Num(1)}

\* faulty variant: the log and the best design outlive the call
StaleLocals == UNCHANGED <<logs, best_design, min_cost_metric>>

\* lines 112-114: logs, best_design and min_cost_metric are created by each call
FreshLocals == logs' = <<>> /\ best_design' = NULL /\ min_cost_metric' = PInf

\* the caller keeps the result just returned and calls calculateDPHX (lines 30-55)
Call ==
    /\ calls < MaxCalls
    /\ pc \in {"idle", "done"} /\ spc \in {"idle", "done"}
    /\ seen' = IF pc = "done" THEN seen @@ (data :> result) ELSE seen
    /\ calls' = calls + 1
    /\ data' \in CallInputs
    /\ pc' = "start"
    /\ FreshLocals
    /\ m_h' = NaN /\ m_c' = NaN /\ T_h_out' = NaN /\ T_c_out' = NaN
    /\ Q' = NaN /\ LMTD' = NaN /\ max_dp' = NaN /\ i' = 0 /\ j' = 0 /\ result' = NULL
    /\ UNCHANGED <<svars, sseen, ldata, leg, lresult>>

\* the caller keeps the rating just returned and calls calculateSTHX in rating mode
\* (lines 240-241)
RateCall ==
    /\ calls < MaxCalls
    /\ pc \in {"idle", "done"} /\ spc \in {"idle", "done"}
    /\ sseen' = IF spc = "done" THEN sseen @@ (inputData :> sresult) ELSE sseen
    /\ calls' = calls + 1
    /\ inputData' \in RatingInputs
    /\ spc' = "start"
    /\ U_assumed' = NaN /\ iter' = 0 /\ slogs' = <<>> /\ bestDesign' = NULL
    /\ sresult' = NULL
    /\ UNCHANGED <<dvars, seen, ldata, leg, lresult>>

CallsNext == Call \/ Validate \/ SkipPair \/ Trial \/ Finish \/ RateCall \/ RatingCall

\* neither tool has been called yet
CallsInit == DIdle /\ SIdle /\ NoHistory

\* one caller making up to MaxCalls calls, one after the other
SpecCalls == CallsInit /\ [][CallsNext]_vars

UnknownCount(d) ==
    Cardinality({f \in {"m_h", "m_c", "T_h_out", "T_c_out"} : d[f] = Undef})

\* line 86 and line 87 evaluated on the values carried into the search
HotDuty == Mul(Mul(m_h, Parsed(data).Cp_h), Sub(Parsed(data).T_h_in, T_h_out))

ColdDuty == Mul(Mul(m_c, Parsed(data).Cp_c), Sub(T_c_out, Parsed(data).T_c_in))

\* x and y are finite and agree to 1% (the arithmetic carries four digits)
Agree(x, y) ==
    IsFin(x) /\ IsFin(y) /\ Le(Abs(Sub(x, y)), Mul(Norm(1, -2), Abs(y)))

\* C11: with exactly one unknown among the two mass flows and the two outlet
\* temperatures, once the search is entered the hot-side duty and the cold-side duty
\* computed from the solved values both equal the Q carried into the search.
C11_EnergyBalanceClosure ==
    (pc \in {"search", "finish"} /\ UnknownCount(data) = 1) =>
        Agree(HotDuty, Q) /\ Agree(ColdDuty, Q)

(* ----------------------------------------------------------------------- *)
(* The log-mean temperature difference when the two differences are equal   *)
(* ----------------------------------------------------------------------- *)

\* the legacy double-pipe calculation: error is "" when an LMTD is produced
LegacyLMTD(deltaT1, deltaT2) ==
    IF Le(deltaT1, Zero) \/ Le(deltaT2, Zero) \/ Eq(deltaT1, deltaT2)
    THEN IF Lt(Abs(Sub(deltaT1, deltaT2)), Norm(1, -5))
         THEN [error |-> "", LMTD |-> deltaT1]
         ELSE [error |-> "Invalid temperature difference for LMTD calculation.",
               LMTD |-> NaN]
    ELSE [error |-> "",
          LMTD |-> Div(Sub(deltaT1, deltaT2), Log(Div(deltaT1, deltaT2)))]

\* the two terminal differences that performKernRating hands to calculateLMTD
RatingDeltaT(D) ==
    [dt1 |-> Sub(ToNum(ShellSideOf(D).Tin), ToNum(TubeSideOf(D).Tout)),
     dt2 |-> Sub(ToNum(ShellSideOf(D).Tout), ToNum(TubeSideOf(D).Tin))]

\* C12: whenever deltaT1 = deltaT2 > 0, the log-mean temperature difference computed
\* by the double-pipe optimizer, by the legacy double-pipe calculation and by the
\* shell-and-tube calculateLMTD is exactly deltaT1, and is not NaN.
C12_LMTDLimit ==
    /\ \A t \in {Num(5), Num(30), Norm(125, -1)} :
          /\ LMTDOf([dt1 |-> t, dt2 |-> t]) = t
          /\ LegacyLMTD(t, t) = [error |-> "", LMTD |-> t]
    /\ (spc = "done" /\ sresult.design # NULL
          /\ Eq(RatingDeltaT(Allocated(inputData)).dt1, RatingDeltaT(Allocated(inputData)).dt2)
          /\ Gt(RatingDeltaT(Allocated(inputData)).dt1, Zero)) =>
          /\ ~IsNaN(sresult.design.LMTD)
          /\ sresult.design.LMTD = RatingDeltaT(Allocated(inputData)).dt1

(* ----------------------------------------------------------------------- *)
(* The design loop of the shell-and-tube solver                            *)
(* ----------------------------------------------------------------------- *)

\* a call in design mode that reached the loop
InDesignLoop ==
    /\ inputData # NULL /\ inputData.mode = "design"
    /\ spc \in {"loop", "after"} \/ (spc = "done" /\ sresult.design # NULL)

\* the passes of the loop body executed so far: the loop variable counts the passes
\* that ended in the damping step, and a converged pass leaves through "break"
Executed == iter + (IF bestDesign # NULL /\ bestDesign.converged = "true" THEN 1 ELSE 0)

\* the summary lines of the log, in log order
IterSeq == SelectSeq(slogs, LAMBDA l : l.kind = "iter")

\* C13: the design loop executes at most 20 passes, and the log holds exactly one
\* summary line per executed pass, in pass order, converged or not.
C13_BoundedLoopOneLinePerPass ==
    InDesignLoop =>
        /\ Executed <= MaxIter
        /\ Len(IterSeq) = Executed
        /\ \A n \in 1 .. Len(IterSeq) : IterSeq[n].iter = n
        /\ spc = "done" => sresult.logs = slogs

\* a design run that converged in its seventh pass has returned
C13_Witness ==
    /\ InDesignLoop /\ spc = "done"
    /\ sresult.design.converged = "true" /\ Executed = 7 /\ Len(IterSeq) = 7

\* the call has returned a design flagged converged whose error is within 10%
EndsConverged ==
    /\ spc = "done" /\ sresult.error = "" /\ sresult.design # NULL
    /\ sresult.design.converged = "true"
    /\ Le(Abs(Div(Sub(sresult.design.U_clean, U_assumed), U_assumed)), Norm(1, -1))
    /\ Executed <= MaxIter

\* the call has returned a design flagged not converged after 20 logged passes
EndsExhausted ==
    /\ spc = "done" /\ sresult.error = "" /\ sresult.design # NULL
    /\ sresult.design.converged = "false"
    /\ Executed = MaxIter
    /\ Len(SelectSeq(sresult.logs, LAMBDA l : l.kind = "iter")) = MaxIter

\* what remains of a call: the loop passes still allowed, then the return
Remaining ==
    CASE spc = "start" -> MaxIter + 3
      [] spc = "loop" -> MaxIter - iter + 2
      [] spc = "after" -> 1
      [] OTHER -> 0

C15_ExhaustedReturnsLastCandidate ==
    (spc = "done" /\ inputData.mode = "design" /\ Executed = MaxIter
        /\ ~(bestDesign # NULL /\ bestDesign.converged = "true")) =>
        /\ sresult.error = "" /\ sresult.design # NULL
        /\ sresult.design.converged = "false"
        /\ ToFixed(Mul(sresult.design.Geometry.Ds, Num(1000)), 0) = IterSeq[MaxIter].shell

\* the pass of the loop body on the current guess has an error strictly inside 10%
PassConverges == Lt(Abs(PassOf(Allocated(inputData)).error), Norm(1, -1))

OptFields ==
    {"U", "A_req", "L_req", "dP_in", "dP_ann", "Re_in", "Re_ann", "h_in", "h_ann",
     "v_in", "v_ann", "Q", "LMTD", "m_h", "m_c", "T_h_out", "T_c_out"}

RatingFields ==
    {"U_clean", "U_dirty", "h_s", "h_t", "dP_s", "dP_t", "Re_s", "Re_t", "Vt", "Vs",
     "Area_Required", "Area_Provided", "Overdesign_Pct", "LMTD", "Q"}

\* C17: no successful result of the double-pipe optimizer or of the shell-and-tube
\* design loop holds a NaN or an infinite value in a numeric field.
C17_NoNaNInSuccessfulResult ==
    /\ (pc = "done" /\ result.success) => \A f \in OptFields : IsFin(result.opt[f])
    /\ (spc = "done" /\ inputData.mode = "design" /\ sresult.error = ""
          /\ sresult.design # NULL /\ sresult.design.converged = "true") =>
          \A f \in RatingFields : IsFin(sresult.design[f])

\* the shell diameter estimated for the pass about to run is beyond the 60 inch shell
CatalogExhausted ==
    /\ inputData # NULL /\ inputData.mode = "design" /\ spc = "loop"
    /\ Gt(Sizing(Allocated(inputData), DesignQ(Allocated(inputData)),
                 DesignLMTD(Allocated(inputData)), U_assumed).Ds_est,
          TEMA_SHELLS[13])

\* C18: a pass whose estimated shell diameter exceeds the largest catalog shell ends
\* the call with an explicit failure: no design is rated on a catalog shell.
C18_CatalogExhaustionFails ==
    [][CatalogExhausted =>
          (spc' = "done" /\ sresult' # NULL /\ sresult'.error # ""
              /\ sresult'.design = NULL /\ slogs' = slogs)]_vars

\* the rating r of the prepared input D rests on a Reynolds or Prandtl number that is
\* not a positive finite number, or on a logarithm of a non-positive argument
\* (lines 419-420, 451-452, 460, 470, 506)
NonPhysical(D, r) ==
    LET Positive(v) == IsFin(v) /\ Gt(v, Zero)
    IN \/ ~Positive(r.Re_t) \/ ~Positive(r.Re_s)
       \/ ~Positive(Div(Mul(ToNum(TubeSideOf(D).cp), ToNum(TubeSideOf(D).mu)),
                        ToNum(TubeSideOf(D).k)))
       \/ ~Positive(Div(Mul(ToNum(ShellSideOf(D).cp), ToNum(ShellSideOf(D).mu)),
                        ToNum(ShellSideOf(D).k)))
       \/ ~Positive(Div(ToNum(D.tube_od), ToNum(D.tube_id)))
       \/ ~Positive(Div(RatingDeltaT(D).dt1, RatingDeltaT(D).dt2))

\* C19: a rating call that meets a non-positive or non-finite Reynolds or Prandtl
\* number, or a logarithm of a non-positive argument, fails with an error and returns
\* no coefficients.
C19_RatingRejectsNonPhysical ==
    (spc = "done" /\ inputData.mode = "rating"
        /\ NonPhysical(Allocated(inputData),
                       performKernRating(ShellSideOf(Allocated(inputData)),
                                         TubeSideOf(Allocated(inputData)),
                                         Allocated(inputData)))) =>
        /\ sresult.error # ""
        /\ sresult.design = NULL

(* ----------------------------------------------------------------------- *)
(* Objects shared between the catalogs, the input and the results          *)
(* ----------------------------------------------------------------------- *)

\* lines 120, 124, 192-193: inner_pipe and outer_pipe of the returned design are the
\* elements STANDARD_PIPES[i] and STANDARD_PIPES[j] themselves, not copies of them
CatalogObjectsIn(design) ==
    {<<"STANDARD_PIPES", design.inner>>, <<"STANDARD_PIPES", design.outer>>}

\* C21: a call leaves the catalog and the caller's input unchanged, and the result it
\* returns holds no object of the catalog.
C21_ResultSharesNothing ==
    /\ []((pc = "done" /\ result.success) => CatalogObjectsIn(result.opt) = {})
    /\ [][data' = data /\ inputData' = inputData]_vars

(* ----------------------------------------------------------------------- *)
(* The legacy double-pipe calculation (src/unnamed/part_001)               *)
(* ----------------------------------------------------------------------- *)

\* lines 199-224: velocities, film coefficients and overall coefficient of the
\* current diameters di, Do for the values g fixed before the loops
LegacyThermal(g, di, Do) ==
    LET v_inner == Div(g.m_h, Mul(Div(Mul(PI, Mul(di, di)), Num(4)), g.rho_h))
        v_annulus ==
            Div(g.m_c, Mul(Div(Mul(PI, Sub(Mul(Do, Do), Mul(g.d_o, g.d_o))), Num(4)),
                           g.rho_c))
        h(rho, v, D, mu, Cp, k) ==
            Div(Mul(Mul(Mul(Norm(23, -3), Pow(Div(Mul(Mul(rho, v), D), mu), 8, 10)),
                        Pow(Div(Mul(Cp, mu), k), 4, 10)), k), D)
        U(hi, ha) ==
            Div(Num(1), Add(Add(Add(Div(Num(1), hi), g.Rf_h), g.Rf_c), Div(Num(1), ha)))
        out(vi, va, hi, ha, Uc) ==
            [v_inner |-> vi, v_annulus |-> va, h_inner |-> hi, h_annulus |-> ha,
             U_calculated |-> Uc,
             difference |-> Div(Abs(Sub(Uc, g.U_assumed)), g.U_assumed)]
        films(vi, va, hi, ha) == out(vi, va, hi, ha, U(hi, ha))
        flows(vi, va) ==
            films(vi, va, h(g.rho_h, vi, di, g.mu_h, g.Cp_h, g.k_h),
                  h(g.rho_c, va, Sub(Do, g.d_o), g.mu_c, g.Cp_c, g.k_c))
    IN flows(v_inner, v_annulus)

\* lines 250-271: the two pressure drops of the current diameters and their tests
LegacyDP(g, di, Do) ==
    LET f(Re) ==
            IF Lt(Re, Num(2300)) THEN Div(Num(64), Re)
            ELSE Div(Norm(3164, -4), Pow(Re, 1, 4))
        dP(rho, v, D, mu) ==
            Mul(Mul(Mul(Mul(f(Div(Mul(Mul(rho, v), D), mu)), Div(g.L_required, D)),
                        Norm(5, -1)), rho), Mul(v, v))
        out(dPi, dPa) ==
            [deltaP_inner |-> dPi, deltaP_ann |-> dPa,
             inner_ok |-> g.allowable_dp_inner = NULL \/ Le(dPi, g.allowable_dp_inner),
             ann_ok |-> g.allowable_dp_ann = NULL \/ Le(dPa, g.allowable_dp_ann)]
        flows(vi, va) ==
            out(dP(g.rho_h, vi, di, g.mu_h), dP(g.rho_c, va, Sub(Do, g.d_o), g.mu_c))
    IN flows(Div(g.m_h, Mul(g.rho_h, Div(Mul(PI, Mul(di, di)), Num(4)))),
             Div(g.m_c, Mul(g.rho_c,
                            Div(Mul(PI, Sub(Mul(Do, Do), Mul(g.d_o, g.d_o))), Num(4)))))

\* lines 1-196: parsing, pipe selection, energy balance (lines 98-139, the statements
\* of EnergyBalance), temperature checks, LMTD, required area and length
LegacyStart ==
    /\ leg.pc = "start"
    /\ LET fail(msg) ==
               /\ lresult' = [success |-> FALSE, error |-> msg]
               /\ leg' = [pc |-> "done"]
           enter(p, b, lm, d_o, d_i, A_required) ==
               /\ lresult' = lresult
               /\ leg' = [pc |-> "uloop", d_i |-> d_i, d_o |-> d_o, D_o |-> ParseFloat(ldata.D_o),
                          m_h |-> b.m_h, m_c |-> b.m_c, T_h_out |-> b.T_h_out,
                          T_c_out |-> b.T_c_out, Q |-> b.Q, LMTD |-> lm,
                          A_required |-> A_required,
                          L_required |-> Div(A_required, Mul(PI, d_o)),
                          rho_h |-> p.rho_h, mu_h |-> p.mu_h, k_h |-> p.k_h, Cp_h |-> p.Cp_h,
                          rho_c |-> p.rho_c, mu_c |-> p.mu_c, k_c |-> p.k_c, Cp_c |-> p.Cp_c,
                          Rf_h |-> Norm(2, -4), Rf_c |-> Norm(2, -4),
                          U_assumed |-> ParseFloat(ldata.U_assumed),
                          allowable_dp_inner |->
                              IF Falsy(ldata.allowable_dp_inner) THEN NULL
                              ELSE ParseFloat(ldata.allowable_dp_inner),
                          allowable_dp_ann |->
                              IF Falsy(ldata.allowable_dp_ann) THEN NULL
                              ELSE ParseFloat(ldata.allowable_dp_ann),
                          U_valid |-> FALSE, iteration |-> 1,
                          dp_valid |-> FALSE, dp_iteration |-> 1, logs |-> 0,
                          h_inner |-> Zero, h_annulus |-> Zero, U_calculated |-> Zero,
                          deltaP_inner |-> Zero, deltaP_ann |-> Zero]
           sized(p, b, l, d_o, d_i) ==
               IF l.error # "" THEN fail(l.error)
               ELSE IF Ge(d_i, d_o)
               THEN fail("Inner diameter cannot be greater than or equal to outer diameter.")
               ELSE enter(p, b, l.LMTD, d_o, d_i,
                          Div(b.Q, Mul(ParseFloat(ldata.U_assumed), l.LMTD)))
           checked(p, b, d_o, d_i) ==
               IF b.err # "" THEN fail(b.err)
               ELSE IF Eq(p.flow_type, Num(1))
               THEN IF Le(p.T_h_in, b.T_c_out) \/ Le(b.T_h_out, p.T_c_in)
                    THEN fail("Temperature cross detected in counter-current flow.")
                    ELSE sized(p, b, LegacyLMTD(DeltaT(p, b).dt1, DeltaT(p, b).dt2), d_o, d_i)
               ELSE IF Eq(p.flow_type, Num(2))
               THEN IF Le(p.T_h_in, p.T_c_in) \/ Le(b.T_h_out, b.T_c_out)
                    THEN fail("Temperature cross detected in co-current flow.")
                    ELSE sized(p, b, LegacyLMTD(DeltaT(p, b).dt1, DeltaT(p, b).dt2), d_o, d_i)
               ELSE fail("Invalid flow type selected.")
           balanced(p, d_o, d_i) == checked(p, EnergyBalance(p), d_o, d_i)
           picked(idx) ==
               IF \E n \in 1 .. 4 : Num(n) = idx
               THEN balanced(Parsed(ldata),
                             <<Norm(19, -3), Norm(25, -3), Norm(32, -3), Norm(38, -3)>>
                                 [CHOOSE n \in 1 .. 4 : Num(n) = idx],
                             <<Norm(16, -3), Norm(21, -3), Norm(27, -3), Norm(33, -3)>>
                                 [CHOOSE n \in 1 .. 4 : Num(n) = idx])
               ELSE fail("Invalid pipe size selected")
       IN picked(ParseInt(OrElse(ldata.pipe_size_idx, Num(1))))
    /\ UNCHANGED <<dvars, svars, hvars, ldata>>

\* lines 198-242: one pass of the U-validation loop; the loop is left on "break" or
\* after the tenth pass
LegacyUStep ==
    /\ leg.pc = "uloop"
    /\ LET step(t) ==
               leg' = [leg EXCEPT
                   !.h_inner = t.h_inner, !.h_annulus = t.h_annulus,
                   !.U_calculated = t.U_calculated,
                   !.logs = @ + 1,
                   !.U_valid = Le(t.difference, Norm(2, -1)),
                   !.d_i = IF Le(t.difference, Norm(2, -1)) \/ ~Lt(t.h_inner, t.h_annulus)
                           THEN @
                           ELSE IF Lt(t.v_inner, Norm(6, -1)) THEN Mul(@, Norm(9, -1))
                           ELSE IF Gt(t.v_inner, Num(2)) THEN Mul(@, Norm(11, -1))
                           ELSE @,
                   !.D_o = IF Le(t.difference, Norm(2, -1)) \/ Lt(t.h_inner, t.h_annulus)
                           THEN @
                           ELSE IF Lt(t.v_annulus, Norm(5, -1)) THEN Mul(@, Norm(95, -2))
                           ELSE IF Gt(t.v_annulus, Norm(15, -1)) THEN Mul(@, Norm(105, -2))
                           ELSE @,
                   !.iteration = IF Le(t.difference, Norm(2, -1)) THEN @ ELSE @ + 1,
                   !.pc = IF Le(t.difference, Norm(2, -1)) \/ leg.iteration + 1 > 10
                          THEN "dploop" ELSE "uloop"]
       IN step(LegacyThermal(leg, leg.d_i, leg.D_o))
    /\ UNCHANGED <<dvars, svars, hvars, ldata, lresult>>

\* lines 249-312: one pass of the pressure-drop loop; when the loop is left, on
\* "break" or after the fifth pass, the result is returned
LegacyDPStep ==
    /\ leg.pc = "dploop"
    /\ LET ret(g) ==
               /\ leg' = g
               /\ lresult' = IF g.pc = "done"
                             THEN [success |-> TRUE, error |-> "", d_i |-> g.d_i,
                                   d_o |-> g.d_o, D_o |-> g.D_o, Q |-> g.Q, LMTD |-> g.LMTD,
                                   A_required |-> g.A_required,
                                   L_required |-> g.L_required,
                                   U_calculated |-> g.U_calculated,
                                   deltaP_inner |-> g.deltaP_inner,
                                   deltaP_annulus |-> g.deltaP_ann, logs |-> g.logs,
                                   U_valid |-> g.U_valid, dp_valid |-> g.dp_valid]
                             ELSE lresult
           step(t) ==
               ret([leg EXCEPT
                   !.deltaP_inner = t.deltaP_inner, !.deltaP_ann = t.deltaP_ann,
                   !.dp_valid = t.inner_ok /\ t.ann_ok,
                   !.logs = IF t.inner_ok /\ t.ann_ok THEN @ ELSE @ + 1,
                   !.d_i = IF t.inner_ok /\ t.ann_ok THEN @
                           ELSE IF ~t.inner_ok /\ (Gt(t.deltaP_inner, t.deltaP_ann)
                                                    \/ leg.allowable_dp_ann = NULL)
                           THEN Mul(@, Norm(105, -2)) ELSE @,
                   !.D_o = IF t.inner_ok /\ t.ann_ok THEN @
                           ELSE IF ~t.inner_ok /\ (Gt(t.deltaP_inner, t.deltaP_ann)
                                                    \/ leg.allowable_dp_ann = NULL)
                           THEN @ ELSE Mul(@, Norm(105, -2)),
                   !.dp_iteration = IF t.inner_ok /\ t.ann_ok THEN @ ELSE @ + 1,
                   !.pc = IF (t.inner_ok /\ t.ann_ok) \/ leg.dp_iteration + 1 > 5
                          THEN "done" ELSE "dploop"])
       IN step(LegacyDP(leg, leg.d_i, leg.D_o))
    /\ UNCHANGED <<dvars, svars, hvars, ldata>>

\* the legacy calculation has been called (lines 1-85: the fields it reads): water on
\* both sides, the cold outlet solved from the balance, pipe 1 (default), 2 or an
\* invalid index, an outer pipe below and above the inner pipe's outer diameter, no or
\* a 1 Pa limit on the inner pressure drop; pipe_choice, id_choice and foul_choice are
\* left to their defaults
LegacyInit ==
    /\ DIdle /\ SIdle
    /\ seen = <<>> /\ sseen = <<>> /\ calls = 0
    /\ ldata \in
           [m_h : {Norm(5, -1), Num(2)}, T_h_in : {Num(80)}, T_h_out : {Num(50)},
            m_c : {Num(1)}, T_c_in : {Num(20)}, T_c_out : {Undef},
            Cp_h : {Water.Cp}, rho_h : {Water.rho}, mu_h : {Water.mu}, k_h : {Water.k},
            Cp_c : {Water.Cp}, rho_c : {Water.rho}, mu_c : {Water.mu}, k_c : {Water.k},
            flow_type : {Undef}, Rf_h : {Undef}, Rf_c : {Undef},
            U_assumed : {Num(500), Num(2000)}, pipe_size_idx : {Undef, Num(2), Num(9)},
            D_o : {Norm(15, -3), Norm(3, -2), Norm(5, -2)},
            allowable_dp_inner : {Undef, Num(1)}, allowable_dp_ann : {Undef}]
    /\ leg = [pc |-> "start"] /\ lresult = NULL

SpecLegacy == LegacyInit /\ [][LegacyStart \/ LegacyUStep \/ LegacyDPStep]_vars

\* C22: every successful result of the legacy calculation has d_i < d_o < D_o, also
\* after the adjustments of the U-validation loop and of the pressure-drop loop.
C22_LegacyGeometry ==
    (leg.pc = "done" /\ lresult.success) =>
        Lt(lresult.d_i, lresult.d_o) /\ Lt(lresult.d_o, lresult.D_o)

C25_RatedTubeCountHasMargin ==
    LET needed(D, r) == Div(r.A_req, Mul(Mul(PI, ToNum(D.tube_od)), ToNum(D.tube_length)))
        rated(D, r) ==
            /\ r.rating.Geometry.Nt = Ceil(Mul(needed(D, r), Norm(105, -2)))
            /\ Ge(r.rating.Geometry.Nt, needed(D, r))
    IN spc = "loop" => rated(Allocated(inputData), PassOf(Allocated(inputData)))

\* C26: throughout the search best_design is null exactly when min_cost_metric is
\* Infinity; otherwise min_cost_metric is best_design.A_req and is the minimum A_req
\* of the feasible pairs tried so far; min_cost_metric never increases.
C26_BestSoFar ==
    /\ [](pc \in {"search", "finish"} =>
            /\ best_design = NULL <=> min_cost_metric = PInf
            /\ best_design # NULL =>
                   /\ min_cost_metric = best_design.A_req
                   /\ \E q \in Visited : FeasibleAt(q) /\ AreaAt(q) = min_cost_metric
                   /\ \A q \in Visited : FeasibleAt(q) => Le(min_cost_metric, AreaAt(q)))
    /\ [][Le(min_cost_metric', min_cost_metric)]_vars

\* the metric has gone down at least twice: two feasible pairs of larger, different
\* areas were tried before the current best
C26_Witness ==
    /\ pc = "search" /\ best_design # NULL
    /\ \E q, r \in Visited :
          /\ FeasibleAt(q) /\ FeasibleAt(r)
          /\ Lt(min_cost_metric, AreaAt(q)) /\ Lt(AreaAt(q), AreaAt(r))

\* C27: every successful result of the double-pipe optimizer has a strictly positive
\* duty, required area and required length; no candidate of zero or negative area is
\* ever taken as the best design.
C27_PositiveDutyAreaLength ==
    /\ best_design # NULL => Gt(best_design.A_req, Zero)
    /\ (pc = "done" /\ result.success) =>
           /\ Gt(result.opt.Q, Zero)
           /\ Gt(result.opt.A_req, Zero)
           /\ Gt(result.opt.L_req, Zero)

\* C28: an outlet temperature supplied by the caller, whatever its value, is treated
\* as known: it is returned unchanged by a successful call, and a call that was
\* given both outlet temperatures never fails for want of a temperature.
C28_SuppliedOutletKept ==
    pc = "done" =>
        /\ (result.success /\ data.T_h_out # Undef) => result.opt.T_h_out = data.T_h_out
        /\ (result.success /\ data.T_c_out # Undef) => result.opt.T_c_out = data.T_c_out
        /\ (~result.success /\ data.T_h_out # Undef /\ data.T_c_out # Undef) =>
               result.error # ErrNeedTemps

\* C29: in design mode, for a hot stream that cools and a cold stream that heats, the
\* duty and the required area of the pass are positive and are the same for the
\* allocation hot_shell as for the allocation cold_shell.
C29_DutyIndependentOfAllocation ==
    LET same(Qh, Qc, Ah, Ac) ==
            /\ Gt(Qh, Zero) /\ Gt(Qc, Zero) /\ Qh = Qc
            /\ Gt(Ah, Zero) /\ Gt(Ac, Zero) /\ Ah = Ac
        sized(Dh, Dc) ==
            same(DesignQ(Dh), DesignQ(Dc),
                 Sizing(Dh, DesignQ(Dh), DesignLMTD(Dh), U_assumed).A_req,
                 Sizing(Dc, DesignQ(Dc), DesignLMTD(Dc), U_assumed).A_req)
        either(D) ==
            (Gt(ToNum(D.hot.Tin), ToNum(D.hot.Tout)) /\ Gt(ToNum(D.cold.Tout), ToNum(D.cold.Tin)))
                => sized([D EXCEPT !.allocation = "hot_shell"],
                         [D EXCEPT !.allocation = "cold_shell"])
    IN spc = "loop" => either(Allocated(inputData))

(* ----------------------------------------------------------------------- *)
(* Fluid allocation of calculateSTHX (lines 258-295)                        *)
(* ----------------------------------------------------------------------- *)

\* calculateSTHX has been called in rating mode with two fully specified streams
\* whose viscosity, pressure and fouling each lie below or above the thresholds of
\* lines 260-263 and 279
AllocInit ==
    /\ DIdle /\ NoHistory
    /\ inputData \in
           [hot : {Fluid(Num(5), Num(90), Num(60), mu, P, f) :
                       mu \in {Norm(89, -5), Norm(486, -3)}, P \in {Num(5), Num(30)},
                       f \in {Norm(1, -4), Norm(1, -3)}},
            cold : {Fluid(Num(8), Num(20), Num(40), mu, P, f) :
                        mu \in {Norm(89, -5), Norm(486, -3)}, P \in {Num(5), Num(30)},
                        f \in {Norm(1, -4), Norm(1, -3)}},
            allocation_mode : {"auto", "manual"}, allocation : {"hot_shell", "cold_shell"},
            mode : {"rating"}, U_guess : {Undef},
            tube_od : {Norm(1905, -5)}, tube_id : {Norm(1575, -5)}, tube_length : {Undef},
            tube_passes : {Undef}, tube_pitch : {Norm(2381, -5)}, pitch_type : {"square"},
            shell_ID : {Norm(6, -1)}, total_tubes : {Num(200)},
            baffle_spacing : {Undef}, baffles_n : {Undef}, Rf_t : {Undef}, Rf_s : {Undef}]
    /\ spc = "start" /\ U_assumed = NaN /\ iter = 0 /\ slogs = <<>>
    /\ bestDesign = NULL /\ sresult = NULL

SpecAlloc == AllocInit /\ [][RatingCall]_vars

\* C30: in auto mode the allocation is hot_shell or cold_shell, chosen by the first
\* rule that applies in the order viscosity, pressure, fouling, default, and the rating
\* is made with that allocation; when exactly one fluid is viscous it is on the shell
\* side whatever the pressures and foulings are.
C30_AutoAllocationRuleOrder ==
    LET visc(f) == Gt(ToNum(f.mu), Norm(1, -1))
        pres(f) == Gt(ToNum(f.P), Num(20))
        rule(D) ==
            IF visc(D.hot) # visc(D.cold)
            THEN IF visc(D.hot) THEN "hot_shell" ELSE "cold_shell"
            ELSE IF pres(D.hot) # pres(D.cold)
            THEN IF pres(D.hot) THEN "cold_shell" ELSE "hot_shell"
            ELSE IF Gt(ToNum(D.hot.fouling), Mul(Num(5), ToNum(D.cold.fouling)))
            THEN "cold_shell" ELSE "hot_shell"
        ratedAs(D, a) ==
            sresult.design = IF a = "hot_shell" THEN performKernRating(D.hot, D.cold, D)
                             ELSE performKernRating(D.cold, D.hot, D)
        chosen(D, a) ==
            /\ a \in {"hot_shell", "cold_shell"}
            /\ a = rule(D)
            /\ ratedAs(D, a)
            /\ (visc(D.hot) /\ ~visc(D.cold)) => ratedAs(D, "hot_shell")
            /\ (visc(D.cold) /\ ~visc(D.hot)) => ratedAs(D, "cold_shell")
    IN (spc = "done" /\ inputData.allocation_mode = "auto") =>
           chosen(Merged(inputData), Allocated(inputData).allocation)

\* an auto-mode rating in which only the hot fluid is viscous and only the hot fluid
\* is at high pressure and fouls more: it was rated with the hot fluid on the shell
C30_Witness ==
    /\ spc = "done" /\ inputData.allocation_mode = "auto"
    /\ inputData.allocation = "cold_shell"
    /\ inputData.hot.mu = Norm(486, -3) /\ inputData.cold.mu = Norm(89, -5)
    /\ inputData.hot.P = Num(30) /\ inputData.cold.P = Num(5)
    /\ inputData.hot.fouling = Norm(1, -3) /\ inputData.cold.fouling = Norm(1, -4)
    /\ sresult.design =
           performKernRating(inputData.hot, inputData.cold, Merged(inputData))
    /\ sresult.design #
           performKernRating(inputData.cold, inputData.hot, Merged(inputData))
====
